---- MODULE Spec2Model ----
(***************************************************************************)
(* A model of the tileyolo tile server: the layer catalogue, the tile      *)
(* renderer (process_cog), the reader facade (list_layers / get_tile),     *)
(* the HTTP handlers (tile_handler / get_all_layers) and the tile cache    *)
(* with its hit/miss counters.                                             *)
(*                                                                         *)
(* Conventions.                                                            *)
(*  - Strings the program compares, lower-cases or formats are sequences   *)
(*    of character codes, so that to_lowercase and the lexicographic       *)
(*    comparison are computed and not assumed.                             *)
(*  - An f32/f64 is a record [k, n, d]: k = "fin" is the rational n/d with *)
(*    d > 0, k = "nan" is NaN, k = "pinf"/"ninf" the infinities.  The      *)
(*    arithmetic is exact (rounding of f32 is not modelled); division by   *)
(*    zero, NaN propagation, IEEE comparison and the saturating `as u8`    *)
(*    cast follow Rust.                                                    *)
(*  - The raster library (GDAL), PROJ, the PNG encoder and the colour      *)
(*    gradient presets are external: what they return is drawn from small  *)
(*    sets by the actions.                                                 *)
(***************************************************************************)
EXTENDS Integers, Sequences, FiniteSets, TLC

VARIABLES
    layers,        \* LocalTileReader.layers: layer name -> Seq(Layer)
    call,          \* the get_tile / tile_handler call of the uncached reader
    tile_cache,    \* AppState.cache: tile key -> PNG bytes (or absent)
    cache_hits,    \* Stats.cache_hits
    cache_misses,  \* Stats.cache_misses
    builds,        \* the tile builds in flight (one per key at most)
    task,          \* the request tasks of the cached reader
    requested,     \* per key, how many get_tile calls were issued
    render_calls,  \* per key, how many renders were started and how many failed
    listing,       \* what list_layers returned last
    layers_json,   \* what GET /layers answered last
    scan,          \* the catalogue builder: position, files left, metadata cache
    sidecar,       \* the metadata side-car file on disk: its rows, or absent
    max_cache,     \* AppState.max_cache: the byte budget of the tile cache
    recency        \* the keys of the tile cache, least recently used first

vars == <<layers, call, tile_cache, cache_hits, cache_misses, builds, task,
          requested, render_calls, listing, layers_json, scan, sidecar,
      max_cache, recency>>

----------------------------------------------------------------------------
(* Bounds of the model *)

\* side of a tile in the model (256 in the program)
TileSize == 2
\* zoom levels 0..MaxZoom are requested
MaxZoom == 1
\* request tasks running concurrently against the cached reader
NumTasks == 2
\* cap on the get_tile calls issued to the cached reader
MaxRequests == 3
\* cap on the get_tile calls issued one after another
MaxSeqRequests == 10
\* deepest zoom whose tiles are all enumerated
MaxTileZoom == 4

None == [some |-> FALSE]
Some(v) == [some |-> TRUE, v |-> v]

----------------------------------------------------------------------------
(* Names *)

s_viridis == <<118,105,114,105,100,105,115>>
s_magma == <<109,97,103,109,97>>
s_plasma == <<112,108,97,115,109,97>>
s_inferno == <<105,110,102,101,114,110,111>>
s_turbo == <<116,117,114,98,111>>
s_cubehelix_default == <<99,117,98,101,104,101,108,105,120,95,100,101,102,97,117,108,116>>
s_rainbow == <<114,97,105,110,98,111,119>>
s_spectral == <<115,112,101,99,116,114,97,108>>
s_sinebow == <<115,105,110,101,98,111,119>>
s_grey == <<103,114,101,121>>
s_terrain == <<116,101,114,114,97,105,110>>
s_steps == <<115,116,101,112,115>>
s_rev == <<114,101,118>>
s_bar == <<98,97,114>>
s_Bar == <<66,97,114>>
s_alps == <<97,108,112,115>>
s_foo == <<102,111,111>>

----------------------------------------------------------------------------
(* Floating point values *)

RECURSIVE Gcd(_, _)
Gcd(a, b) == IF b = 0 THEN a ELSE Gcd(b, a % b)

Abs(n) == IF n < 0 THEN -n ELSE n

F(n) == [k |-> "fin", n |-> n, d |-> 1]
\* the rational n/d (d > 0) in lowest terms
Q(n, d) == LET g == Gcd(Abs(n), d) IN [k |-> "fin", n |-> n \div g, d |-> d \div g]
NaN == [k |-> "nan", n |-> 0, d |-> 1]
PInf == [k |-> "pinf", n |-> 0, d |-> 1]
NInf == [k |-> "ninf", n |-> 0, d |-> 1]

is_nan(a) == a.k = "nan"

\* a == b on floats: false as soon as one side is NaN
FEq(a, b) ==
    /\ a.k # "nan" /\ b.k # "nan"
    /\ IF a.k = "fin" /\ b.k = "fin" THEN a.n * b.d = b.n * a.d ELSE a.k = b.k

\* a <= b on floats
FLe(a, b) ==
    /\ a.k # "nan" /\ b.k # "nan"
    /\ \/ a.k = "ninf"
       \/ b.k = "pinf"
       \/ a.k = "fin" /\ b.k = "fin" /\ a.n * b.d <= b.n * a.d

FGe(a, b) == FLe(b, a)

FNeg(a) ==
    CASE a.k = "fin" -> Q(-a.n, a.d)
      [] a.k = "pinf" -> NInf
      [] a.k = "ninf" -> PInf
      [] OTHER -> NaN

FAdd(a, b) ==
    CASE a.k = "nan" \/ b.k = "nan" -> NaN
      [] a.k = "fin" /\ b.k = "fin" -> Q(a.n * b.d + b.n * a.d, a.d * b.d)
      [] a.k = "fin" -> b
      [] b.k = "fin" -> a
      [] a.k = b.k -> a
      [] OTHER -> NaN

FSub(a, b) == FAdd(a, FNeg(b))

FSign(a) ==
    CASE a.k = "pinf" -> 1
      [] a.k = "ninf" -> -1
      [] a.k = "fin" /\ a.n > 0 -> 1
      [] a.k = "fin" /\ a.n < 0 -> -1
      [] OTHER -> 0

FSigned(s) == IF s > 0 THEN PInf ELSE NInf

FMul(a, b) ==
    CASE a.k = "nan" \/ b.k = "nan" -> NaN
      [] a.k = "fin" /\ b.k = "fin" -> Q(a.n * b.n, a.d * b.d)
      [] FSign(a) = 0 \/ FSign(b) = 0 -> NaN
      [] OTHER -> FSigned(FSign(a) * FSign(b))

FDiv(a, b) ==
    CASE a.k = "nan" \/ b.k = "nan" -> NaN
      [] a.k = "fin" /\ b.k = "fin" ->
            IF b.n = 0
            THEN IF a.n = 0 THEN NaN ELSE FSigned(a.n)
            ELSE IF b.n > 0 THEN Q(a.n * b.d, a.d * b.n)
                 ELSE Q(-(a.n * b.d), a.d * (-b.n))
      [] a.k = "fin" -> F(0)
      [] b.k = "fin" -> FSigned(FSign(a) * (IF b.n < 0 THEN -1 ELSE 1))
      [] OTHER -> NaN

\* f32::clamp(lo, hi): NaN stays NaN
FClamp(a, lo, hi) ==
    IF is_nan(a) THEN NaN
    ELSE IF FLe(a, lo) THEN lo
    ELSE IF FGe(a, hi) THEN hi
    ELSE a

\* `x as u8`: NaN casts to 0, the value is truncated and saturates at 0 and 255
AsU8(a) ==
    CASE a.k = "nan" -> 0
      [] a.k = "pinf" -> 255
      [] a.k = "ninf" -> 0
      [] OTHER -> IF a.n <= 0 THEN 0
                  ELSE IF a.n \div a.d > 255 THEN 255
                  ELSE a.n \div a.d

----------------------------------------------------------------------------
(* Styles *)

BuiltinPalettes ==
    {s_viridis, s_magma, s_plasma, s_inferno, s_turbo, s_cubehelix_default,
     s_rainbow, s_spectral, s_sinebow}

is_builtin_palette(name) == name \in BuiltinPalettes

\* get_builtin_gradient(name).is_some()
has_builtin_gradient(name) == name \in BuiltinPalettes

\* The end colours of a preset gradient (colorgrad's presets are opaque).
GradEnds(name) ==
    CASE name = s_viridis -> << <<68, 1, 84>>, <<253, 231, 37>> >>
      [] name = s_magma -> << <<0, 0, 4>>, <<252, 253, 191>> >>
      [] OTHER -> << <<48, 18, 59>>, <<122, 4, 3>> >>

\* to_rgba8 of one channel: (c * 255 + 0.5) as u8
GradChannel(t, e0, e1) ==
    AsU8(FAdd(FAdd(FMul(FSub(F(1), t), F(e0)), FMul(t, F(e1))), Q(1, 2)))

\* grad.at(t).to_rgba8(): the preset sampled at t, as a ramp between its ends
GradAt(name, t) ==
    LET e == GradEnds(name)
    IN <<GradChannel(t, e[1][1], e[2][1]), GradChannel(t, e[1][2], e[2][2]),
         GradChannel(t, e[1][3], e[2][3]), 255>>

ColourStop(v, r, g, b, a) ==
    [value |-> F(v), red |-> r, green |-> g, blue |-> b, alpha |-> a]

\* The stops the catalogue builder attaches to a layer of a style folder: none
\* for a built-in palette, the parsed style.txt of the folder otherwise (none
\* when the file is missing or invalid).
StyleStops(style) ==
    CASE is_builtin_palette(style) -> << >>
      [] style = s_terrain ->
            <<ColourStop(0, 0, 0, 0, 255), ColourStop(100, 200, 100, 50, 255)>>
      [] style = s_steps ->
            <<ColourStop(0, 10, 20, 30, 255), ColourStop(50, 110, 20, 30, 128),
              ColourStop(100, 110, 220, 31, 255)>>
      [] style = s_rev ->
            <<ColourStop(100, 200, 100, 50, 255), ColourStop(0, 0, 0, 0, 255)>>
      [] OTHER -> << >>

----------------------------------------------------------------------------
(* Tile renderer *)

Transparent == <<0, 0, 0, 0>>

is_nodata_nan_only(v, nodata_opt) == is_nan(v)

\* is_nodata of process_cog: NaN, or equal to the band's no-data value if any
is_nodata(v, nodata_opt) ==
    is_nan(v) \/ (IF nodata_opt.some THEN FEq(v, nodata_opt.v) ELSE FALSE)

\* (raw - min_value) / (max_value - min_value)
Normalise(raw, layer_obj) ==
    FDiv(FSub(raw, layer_obj.min_value),
         FSub(layer_obj.max_value, layer_obj.min_value))

GradientPixel(raw, layer_obj) ==
    GradAt(layer_obj.style, FClamp(Normalise(raw, layer_obj), F(0), F(1)))

GrayscalePixel(raw, layer_obj) ==
    LET lum == AsU8(FMul(FClamp(Normalise(raw, layer_obj), F(0), F(1)), F(255)))
    IN <<lum, lum, lum, 255>>

\* ((1.0 - t) * a as f32 + t * b as f32) as u8
Lerp8(t, a, b) == AsU8(FAdd(FMul(FSub(F(1), t), F(a)), FMul(t, F(b))))

\* the windows(2) loop: the first segment [a, b] with a.value <= scaled <= b.value
SegmentOf(cs, scaled) ==
    LET hits == {i \in 1..(Len(cs) - 1) :
                    FGe(scaled, cs[i].value) /\ FLe(scaled, cs[i + 1].value)}
    IN IF hits = {} THEN 0 ELSE CHOOSE i \in hits : \A j \in hits : i <= j

StopsPixel(raw, layer_obj) ==
    LET cs == layer_obj.colour_stops
        style_min == cs[1].value
        style_max == cs[Len(cs)].value
        norm == Normalise(raw, layer_obj)
        scaled == FAdd(style_min,
                       FMul(FClamp(norm, F(0), F(1)), FSub(style_max, style_min)))
        i == SegmentOf(cs, scaled)
    IN IF i = 0 THEN Transparent
       ELSE LET a == cs[i]
                b == cs[i + 1]
                t == FDiv(FSub(scaled, a.value), FSub(b.value, a.value))
            IN <<Lerp8(t, a.red, b.red), Lerp8(t, a.green, b.green),
                 Lerp8(t, a.blue, b.blue), Lerp8(t, a.alpha, b.alpha)>>

\* the colour of one cell of the warped buffer
Colourise(raw, layer_obj, nodata_opt) ==
    IF is_nodata(raw, nodata_opt) THEN Transparent
    ELSE IF has_builtin_gradient(layer_obj.style) THEN GradientPixel(raw, layer_obj)
    ELSE IF layer_obj.colour_stops = << >> THEN GrayscalePixel(raw, layer_obj)
    ELSE StopsPixel(raw, layer_obj)

\* x and y of put_pixel for the i-th cell of the buffer (0-based)
PixelX(i) == i % TileSize
PixelY(i) == i \div TileSize

Cells == 0..(TileSize * TileSize - 1)
Coords == (0..(TileSize - 1)) \X (0..(TileSize - 1))

\* RgbaImage::new followed by put_pixel for every cell, in buffer order
PaintImage(buffer, layer_obj, nodata_opt) ==
    [xy \in Coords |->
        LET at == {i \in Cells : PixelX(i) = xy[1] /\ PixelY(i) = xy[2]}
        IN IF at = {} THEN Transparent
           ELSE Colourise(buffer[(CHOOSE i \in at : \A j \in at : j <= i) + 1],
                          layer_obj, nodata_opt)]

\* img.as_raw(): the pixels row by row
AsRaw(img) ==
    [k \in 1..(TileSize * TileSize) |->
        img[<<(k - 1) % TileSize, (k - 1) \div TileSize>>]]

PngSignature == <<137, 80, 78, 71>>

\* PngEncoder::write_image: the signature, the dimensions and the RGBA rows
PngEncode(raw) == PngSignature \o <<TileSize, TileSize>> \o raw

\* the default of --cache-size-gb
default_cache_size_gb == 2

\* The unit of the budget, 1024 * 1024 * 1024 bytes in the program.  It is
\* scaled with the tile: one unit holds one encoded tile and not two.
GiB == Len(PngSignature) + 2 + 4 * TileSize * TileSize + TileSize

\* TileServer::new: cache_size_bytes = cache_size_gb * 1024 * 1024 * 1024
cache_size_bytes(cache_size_gb) == cache_size_gb * GiB

\* the weight of an entry: the byte length of its payload (four bytes a pixel)
weigher(key, value) ==
    Len(PngSignature) + 2 + 4 * (Len(value) - Len(PngSignature) - 2)

\* the sum of the weights of the entries
RECURSIVE weighted_size(_)
weighted_size(cache) ==
    IF DOMAIN cache = {} THEN 0
    ELSE LET k == CHOOSE k \in DOMAIN cache : TRUE
         IN weigher(k, cache[k]) + weighted_size([j \in DOMAIN cache \ {k} |-> cache[j]])

Without(order, key) == SelectSeq(order, LAMBDA k : k # key)

\* a read or a write of the key makes it the most recently used
touch(order, key) == Append(Without(order, key), key)

\* least recently used entries leave until the rest fits the budget
RECURSIVE evict(_, _, _)
evict(cache, order, budget) ==
    IF weighted_size(cache) <= budget \/ order = << >>
    THEN [cache |-> cache, order |-> order]
    ELSE evict([k \in DOMAIN cache \ {Head(order)} |-> cache[k]], Tail(order), budget)

insert_unbounded(cache, order, key, value, budget) ==
    [cache |-> [k \in DOMAIN cache \cup {key} |-> IF k = key THEN value ELSE cache[k]],
     order |-> touch(order, key)]

\* cache.insert(key, value): an entry heavier than the whole budget is not
\* admitted; otherwise it is stored as most recently used and room is made
insert(cache, order, key, value, budget) ==
    IF weigher(key, value) > budget
    THEN [cache |-> [k \in DOMAIN cache \ {key} |-> cache[k]],
          order |-> Without(order, key)]
    ELSE evict([k \in DOMAIN cache \cup {key} |->
                  IF k = key THEN value ELSE cache[k]],
               touch(order, key), budget)

\* The raster-library calls of process_cog, in order; one of them may fail.
Faults ==
    {"none", "open", "driver", "create", "srs", "wkt", "set_projection",
     "set_geo_transform", "warp", "rasterband", "read", "encode", "join"}

\* e.to_string() of the library's error
GdalMessage(fault) ==
    CASE fault = "open" -> <<111,112,101,110>>
      [] fault = "driver" -> <<100,114,105,118,101,114>>
      [] fault = "create" -> <<99,114,101,97,116,101>>
      [] fault = "srs" -> <<115,114,115>>
      [] fault = "wkt" -> <<119,107,116>>
      [] fault = "set_projection" -> <<112,114,111,106,101,99,116,105,111,110>>
      [] fault = "set_geo_transform" -> <<103,101,111,116,114,97,110,115,102,111,114,109>>
      [] fault = "rasterband" -> <<98,97,110,100>>
      [] fault = "read" -> <<114,101,97,100>>
      [] fault = "encode" -> <<101,110,99,111,100,101>>
      [] OTHER -> <<106,111,105,110>>

Ok(v) == [ok |-> TRUE, v |-> v]
Err(e) == [ok |-> FALSE, e |-> e]

\* The calls whose error process_cog propagates with `?` / map_err.  The result
\* of GDALReprojectImage is dropped, so a failed warp is not among them.
Propagated(fault) == fault \notin {"none", "warp"}

process_cog_error_as_payload(layer_obj, fault, warped, nodata_opt) ==
    IF Propagated(fault) THEN Ok(GdalMessage(fault))
    ELSE Ok(PngEncode(AsRaw(PaintImage(warped, layer_obj, nodata_opt))))

\* process_cog: `warped` is what the destination band holds after the warp,
\* `nodata_opt` what dst_band.no_data_value() returns.
process_cog(layer_obj, fault, warped, nodata_opt) ==
    IF Propagated(fault) THEN Err(GdalMessage(fault))
    ELSE Ok(PngEncode(AsRaw(PaintImage(warped, layer_obj, nodata_opt))))

----------------------------------------------------------------------------
(* Projection primitives.  Longitude and latitude are in degrees; Web        *)
(* Mercator coordinates are in units of the half-width of the world          *)
(* (20037508.342789244 m = R_MAJOR * PI), so x = lon * R * PI / 180 is       *)
(* lon / 180.  ln(tan(..)) and atan(exp(..)) are tabulated on the latitudes  *)
(* the model uses.                                                           *)

MAX_LAT == Q(85051, 1000)

\* R_MAJOR * ln(tan(PI/4 + lat_rad/2)) for a latitude within +-MAX_LAT
MercY(lat) ==
    CASE FEq(lat, F(0)) -> F(0)
      [] FEq(lat, F(45)) -> Q(2806, 10000)
      [] FEq(lat, F(-45)) -> Q(-2806, 10000)
      [] FEq(lat, MAX_LAT) -> F(1)
      [] FEq(lat, FNeg(MAX_LAT)) -> F(-1)
      [] FEq(lat, F(90)) -> Q(11883, 1000)   \* tan of the f64 nearest PI/2 is finite
      [] FEq(lat, F(-90)) -> NInf            \* ln(tan(0.0))
      [] OTHER -> NaN                        \* beyond the poles: ln of a negative

\* (2 * atan(exp(y / R)) - PI/2) * 180 / PI
MercLat(y) ==
    CASE FEq(y, F(0)) -> F(0)
      [] FEq(y, Q(2806, 10000)) -> F(45)
      [] FEq(y, Q(-2806, 10000)) -> F(-45)
      [] FEq(y, F(1)) -> MAX_LAT
      [] FEq(y, F(-1)) -> FNeg(MAX_LAT)
      [] FEq(y, F(2)) -> Q(89786, 1000)
      [] FEq(y, F(-2)) -> Q(-89786, 1000)
      [] OTHER -> NaN

lon_lat_to_mercator(lon, lat) ==
    LET clamped_lat == FClamp(lat, FNeg(MAX_LAT), MAX_LAT)
    IN <<FDiv(lon, F(180)), MercY(clamped_lat)>>

\* utils::geometry::lon_lat_to_mercator: no clamp
utils_lon_lat_to_mercator(lon, lat) == <<FDiv(lon, F(180)), MercY(lat)>>

mercator_to_lon_lat(x, y) == <<FMul(x, F(180)), MercLat(y)>>

\* 2f64.powi(z)
RECURSIVE Pow2(_)
Pow2(z) == IF z = 0 THEN 1 ELSE 2 * Pow2(z - 1)

tile_bounds_y_north(z, x, y) ==
    LET side == Q(2, Pow2(z))
    IN <<FSub(FMul(F(x), side), F(1)), FSub(FMul(F(y), side), F(1)),
         FSub(FMul(F(x + 1), side), F(1)), FSub(FMul(F(y + 1), side), F(1))>>

\* tile_bounds(z, x, y) -> (minx, miny, maxx, maxy), y growing south
tile_bounds(z, x, y) ==
    LET tile_size == F(256)
        initial_resolution == FDiv(FMul(F(2), F(1)), tile_size)
        res == FDiv(initial_resolution, F(Pow2(z)))
        minx == FSub(FMul(FMul(F(x), tile_size), res), F(1))
        maxx == FSub(FMul(FMul(F(x + 1), tile_size), res), F(1))
        maxy == FSub(F(1), FMul(FMul(F(y), tile_size), res))
        miny == FSub(F(1), FMul(FMul(F(y + 1), tile_size), res))
    IN <<minx, miny, maxx, maxy>>

----------------------------------------------------------------------------
(* Geometry model *)

GeometryExtent(minx, miny, maxx, maxy) ==
    [minx |-> minx, miny |-> miny, maxx |-> maxx, maxy |-> maxy]

LayerGeometry(crs_code, extent) == [crs_code |-> crs_code, extent |-> extent]

\* What PROJ does for one (source, target) pair: new_known_crs fails (and the
\* unwrap panics), convert fails, or the two corners convert.
ProjPanic == [k |-> "panic"]
ProjErr == [k |-> "err"]
ProjOk(extent) == [k |-> "ok", extent |-> extent]

\* LayerGeometry::project(target_crs); proj is PROJ's outcome for the pair
project(g, target_crs, proj) ==
    IF g.crs_code = target_crs THEN [k |-> "ok", g |-> g]
    ELSE IF g.crs_code = 4326 /\ target_crs = 3857 THEN
        LET lo == lon_lat_to_mercator(g.extent.minx, g.extent.miny)
            hi == lon_lat_to_mercator(g.extent.maxx, g.extent.maxy)
        IN [k |-> "ok",
            g |-> LayerGeometry(target_crs, GeometryExtent(lo[1], lo[2], hi[1], hi[2]))]
    ELSE IF g.crs_code = 3857 /\ target_crs = 4326 THEN
        LET lo == mercator_to_lon_lat(g.extent.minx, g.extent.miny)
            hi == mercator_to_lon_lat(g.extent.maxx, g.extent.maxy)
        IN [k |-> "ok",
            g |-> LayerGeometry(target_crs, GeometryExtent(lo[1], lo[2], hi[1], hi[2]))]
    ELSE IF proj.k = "ok" THEN [k |-> "ok", g |-> LayerGeometry(target_crs, proj.extent)]
    ELSE [k |-> proj.k]

\* reader::LayerGeometry::project(target_crs): the same paths, with the
\* conversion of utils::geometry
reader_project(g, target_crs, proj) ==
    IF g.crs_code = 4326 /\ target_crs = 3857 THEN
        LET lo == utils_lon_lat_to_mercator(g.extent.minx, g.extent.miny)
            hi == utils_lon_lat_to_mercator(g.extent.maxx, g.extent.maxy)
        IN [k |-> "ok",
            g |-> LayerGeometry(target_crs, GeometryExtent(lo[1], lo[2], hi[1], hi[2]))]
    ELSE project(g, target_crs, proj)

CacheTargets_only_3857(crs_code) == <<3857>>

\* the targets generate_cached_geometry_sync projects to
CacheTargets(crs_code) ==
    IF crs_code = 4326 THEN <<3857>>
    ELSE IF crs_code = 3857 THEN <<4326>>
    ELSE <<4326, 3857>>

\* LayerGeometry::generate_cached_geometry_sync(); proj[t] is PROJ's outcome for
\* the target t.  The first failing projection ends it (`?`, or the panic).
generate_cached_geometry_sync(g, proj) ==
    LET targets == CacheTargets(g.crs_code)
        res == [i \in 1..Len(targets) |-> project(g, targets[i], proj[targets[i]])]
        bad == {i \in 1..Len(targets) : res[i].k # "ok"}
        codes == {g.crs_code} \cup {targets[i] : i \in 1..Len(targets)}
    IN IF bad # {}
       THEN [k |-> res[CHOOSE i \in bad : \A j \in bad : i <= j].k]
       ELSE [k |-> "ok",
             cache |-> [c \in codes |->
                          IF c = g.crs_code THEN g
                          ELSE res[CHOOSE i \in 1..Len(targets) : targets[i] = c].g]]

----------------------------------------------------------------------------
(* Layers and the catalogue *)

\* the path <root>/<style>/<layer>.tif
PathOf(style, layer) == <<style, layer>>

WorldProj ==
    [t \in {4326, 3857} |->
        IF t = 4326 THEN ProjOk(GeometryExtent(F(5), F(45), F(11), F(48)))
        ELSE ProjOk(GeometryExtent(Q(1, 36), Q(2806, 10000), Q(11, 180), Q(3, 10)))]

Geo4326 == LayerGeometry(4326, GeometryExtent(F(-180), F(-90), F(180), F(90)))
Geo3857 == LayerGeometry(3857, GeometryExtent(F(0), F(0), F(1), F(1)))
Geo2056 == LayerGeometry(2056, GeometryExtent(F(2485000), F(1075000), F(2834000), F(1296000)))
Geo0 == LayerGeometry(0, GeometryExtent(F(0), F(0), F(10), F(10)))

\* A Layer record as the catalogue holds it.
Layer(layer, style, geometry, cached, min_value, max_value) ==
    [layer |-> layer, style |-> style, path |-> PathOf(style, layer),
     size_bytes |-> 1024,
     source_geometry |-> geometry, cached_geometry |-> cached,
     colour_stops |-> StyleStops(style),
     min_value |-> F(min_value), max_value |-> F(max_value),
     is_cog |-> TRUE, last_modified |-> 1700000000]

\* a layer of the data tree, scanned
Scanned(layer, style, min_value, max_value) ==
    Layer(layer, style, Geo4326,
          generate_cached_geometry_sync(Geo4326, WorldProj).cache,
          min_value, max_value)

\* a raster of the eastern hemisphere
GeoEast == LayerGeometry(4326, GeometryExtent(F(0), F(-90), F(180), F(90)))

\* a layer of the data tree with the extent of its raster, scanned
ScannedAt(layer, style, geometry, min_value, max_value) ==
    Layer(layer, style, geometry,
          generate_cached_geometry_sync(geometry, WorldProj).cache,
          min_value, max_value)

RenderStyles == {s_viridis, s_grey, s_terrain, s_steps, s_rev}
RenderRanges == {<<0, 100>>, <<0, 200>>, <<5, 5>>}

\* The catalogues the render path is exercised with: one layer "bar" in every
\* style and value range, and "bar" under two style folders.
RenderCatalogues ==
    {[n \in {s_bar} |-> <<Scanned(s_bar, st, r[1], r[2])>>] :
        st \in RenderStyles, r \in RenderRanges}
    \cup {[n \in {s_bar} |->
            <<Scanned(s_bar, s_viridis, 0, 100), Scanned(s_bar, s_terrain, 0, 100)>>],
          [n \in {s_bar} |->
            <<Scanned(s_bar, s_terrain, 0, 100), Scanned(s_bar, s_magma, 0, 100)>>],
          [n \in {s_bar} |-> <<ScannedAt(s_bar, s_grey, GeoEast, 0, 100)>>]}

----------------------------------------------------------------------------
(* What the raster library hands back *)

Samples == <<NaN, F(0), F(50), F(100), F(5), F(150)>>

\* a destination band after the warp: the cells follow a pattern of the samples
PatternBuffer(a, b) ==
    [k \in 1..(TileSize * TileSize) |-> Samples[((a + b * (k - 1)) % Len(Samples)) + 1]]

Buffers == {PatternBuffer(a, b) : a \in 0..(Len(Samples) - 1), b \in {0, 1}}

\* dst_band.no_data_value()
NodataOpts == {None, Some(F(0)), Some(NaN)}

\* the tiles requested: the last tile of the first row of every zoom level
Tiles == {<<z, Pow2(z) - 1, 0>> : z \in 0..MaxZoom}

----------------------------------------------------------------------------
(* Reader facade and tile route *)

LayerNotFound_unnamed(layer) ==
    <<76,97,121,101,114,32,110,111,116,32,102,111,117,110,100>>

\* format!("Layer not found: '{}'", layer)
LayerNotFound(layer) ==
    <<76,97,121,101,114,32,110,111,116,32,102,111,117,110,100,58,32,39>>
        \o layer \o <<39>>

ImagePng == <<105,109,97,103,101,47,112,110,103>>

TileResponse(bytes) == [content_type |-> ImagePng, bytes |-> bytes]

\* self.layers.get(layer).and_then(|styles| styles.first()); the selector is
\* bound to `_style` and not read
SelectLayer(catalogue, layer, style) ==
    IF layer \in DOMAIN catalogue /\ Len(catalogue[layer]) > 0
    THEN Some(catalogue[layer][1])
    ELSE None

\* LocalTileReader::get_tile.  Besides the Result it reports the record that
\* was rendered and how many times Dataset::open was called.
get_tile(catalogue, layer, z, x, y, style, fault, warped, nodata_opt) ==
    LET found == SelectLayer(catalogue, layer, style)
    IN IF ~found.some
       THEN [result |-> Err(LayerNotFound(layer)), used |-> None, opened |-> 0]
       ELSE LET bbox == tile_bounds(z, x, y)
                png == process_cog(found.v, fault, warped, nodata_opt)
            IN [result |-> IF png.ok THEN Ok(TileResponse(png.v)) ELSE Err(png.e),
                used |-> found, opened |-> 1]

\* tile_handler: 200 with the tile, or 404 with the error as text
HttpOk(tile) == [status |-> 200, content_type |-> tile.content_type, body |-> tile.bytes]
HttpNotFound(e) == [status |-> 404, content_type |-> << >>, body |-> e]

tile_response(result) == IF result.ok THEN HttpOk(result.v) ELSE HttpNotFound(result.e)

----------------------------------------------------------------------------
(* The uncached reader: one call at a time, every input enumerated *)

IdleCall == [pc |-> "idle"]

RequestNames == {s_bar, s_foo}
StyleSelectors == {None, Some(s_terrain), Some(s_magma)}

\* the buffer is read only when every call before the read succeeded
ReachesRead(fault) == fault \in {"none", "warp", "encode", "join"}

CallOf(pc, layer, tile, style, fault, warped, nodata_opt) ==
    LET r == get_tile(layers, layer, tile[1], tile[2], tile[3], style, fault,
                      warped, nodata_opt)
    IN [pc |-> pc, layer |-> layer, z |-> tile[1], x |-> tile[2], y |-> tile[3],
        style |-> style, fault |-> fault, warped |-> warped,
        nodata_opt |-> nodata_opt, used |-> r.used, opened |-> r.opened,
        result |-> r.result, response |-> tile_response(r.result)]

CallInputs(layer, fault) ==
    IF layer \in DOMAIN layers /\ ReachesRead(fault)
    THEN Buffers \X NodataOpts
    ELSE {<<(<< >>), None>>}

\* a caller of the TileReader trait: get_tile(layer, z, x, y, style)
GetTile ==
    /\ call.pc = "idle"
    /\ \E layer \in RequestNames, tile \in Tiles, style \in StyleSelectors,
          fault \in Faults :
         \E inp \in CallInputs(layer, fault) :
            call' = CallOf("returned", layer, tile, style, fault, inp[1], inp[2])
    /\ UNCHANGED <<layers, tile_cache, cache_hits, cache_misses, builds, task,
                   requested, render_calls, listing, layers_json, scan, sidecar,
                   max_cache, recency>>

\* GET /tiles/{layer}/{z}/{x}/{y}: tile_handler calls get_tile with style None
TileHandler ==
    /\ call.pc = "idle"
    /\ \E layer \in RequestNames, tile \in Tiles, fault \in Faults :
         \E inp \in CallInputs(layer, fault) :
            call' = CallOf("answered", layer, tile, None, fault, inp[1], inp[2])
    /\ UNCHANGED <<layers, tile_cache, cache_hits, cache_misses, builds, task,
                   requested, render_calls, listing, layers_json, scan, sidecar,
                   max_cache, recency>>

\* the caller takes the result; the next call may start
Return ==
    /\ call.pc # "idle"
    /\ call' = IdleCall
    /\ UNCHANGED <<layers, tile_cache, cache_hits, cache_misses, builds, task,
                   requested, render_calls, listing, layers_json, scan, sidecar,
                   max_cache, recency>>

EmptyMap == [k \in {} |-> 0]

\* the builder after the catalogue is built
Built ==
    [pc |-> "ready", entries |-> << >>, pending |-> << >>, meta |-> EmptyMap,
     reused |-> {}, warned |-> {}, out |-> << >>]

InitRender ==
    /\ layers \in RenderCatalogues
    /\ call = IdleCall
    /\ tile_cache = EmptyMap
    /\ cache_hits = 0
    /\ cache_misses = 0
    /\ builds = {}
    /\ task = EmptyMap
    /\ requested = EmptyMap
    /\ render_calls = EmptyMap
    /\ listing = << >>
    /\ layers_json = << >>
    /\ scan = Built
    /\ sidecar = None
    /\ max_cache = cache_size_bytes(default_cache_size_gb)
    /\ recency = << >>

NextRender == GetTile \/ TileHandler \/ Return

SpecRender == InitRender /\ [][NextRender]_vars

----------------------------------------------------------------------------
(* The cached reader: the tile cache of AppState in front of the renderer,   *)
(* with the hit/miss counters.  get_tile probes the cache (first suspension  *)
(* point), counts a hit or a miss, and on a miss locates the layer and has   *)
(* the tile built on a blocking worker; a key has at most one build in       *)
(* flight and the callers that missed meanwhile wait for it.                 *)

Tasks == 1..NumTasks

\* the tiles asked of the cached reader: the world tile and one of the deepest zoom
ServeTiles == {<<0, 0, 0>>, <<MaxZoom, Pow2(MaxZoom) - 1, 0>>}

Keys == {<<n, t[1], t[2], t[3]>> : n \in RequestNames, t \in ServeTiles}

IdleTask == [pc |-> "idle"]

ServeCatalogues == {[n \in {s_bar} |-> <<Scanned(s_bar, s_terrain, 0, 100)>>]}

\* what the library does during a build of the cached reader
ServeFaults == {"none", "open"}
ServeBuffers == {PatternBuffer(1, 1), PatternBuffer(2, 0)}

\* what the renderer returns for the layers, faults and buffers of the builds
Renders ==
    [l \in {Scanned(n, s_terrain, 0, 100) : n \in RequestNames} |->
        [fault \in ServeFaults |->
            [warped \in ServeBuffers |-> process_cog(l, fault, warped, None)]]]

Issued == cache_hits + cache_misses + Cardinality({t \in Tasks : task[t].pc = "probe"})

InFlight_none(key) == {}

\* the builds of a key that are in flight
InFlight(key) == {b \in builds : b.key = key}

Bump(f, k) == [f EXCEPT ![k] = @ + 1]

Accounting_always_miss(present) == [hits |-> 0, misses |-> 1]

\* what one get_tile adds to the counters after its probe
Accounting(present) ==
    IF present THEN [hits |-> 1, misses |-> 0] ELSE [hits |-> 0, misses |-> 1]

\* a client calls get_tile(layer, z, x, y): the task is created
Request(t, cap) ==
    /\ task[t].pc = "idle"
    /\ Issued < cap
    /\ \E key \in Keys :
          /\ task' = [task EXCEPT ![t] = [pc |-> "probe", key |-> key]]
          /\ requested' = Bump(requested, key)
    /\ UNCHANGED <<layers, call, tile_cache, cache_hits, cache_misses, builds,
                   render_calls, listing, layers_json, scan, sidecar, max_cache,
                   recency>>

\* the cache probe and what follows it up to the next suspension point
Probe(t) ==
    /\ task[t].pc = "probe"
    /\ LET key == task[t].key
           found == SelectLayer(layers, key[1], None)
           present == key \in DOMAIN tile_cache
       IN /\ cache_hits' = cache_hits + Accounting(present).hits
          /\ cache_misses' = cache_misses + Accounting(present).misses
          /\ IF present
             THEN /\ task' = [task EXCEPT ![t] =
                       [pc |-> "done", key |-> key,
                        result |-> Ok(TileResponse(tile_cache[key]))]]
                  /\ recency' = touch(recency, key)
                  /\ UNCHANGED <<builds, render_calls>>
             ELSE IF ~found.some
             THEN /\ task' = [task EXCEPT ![t] =
                       [pc |-> "done", key |-> key,
                        result |-> Err(LayerNotFound(key[1]))]]
                  /\ UNCHANGED <<builds, render_calls, recency>>
             ELSE IF InFlight(key) # {}
             THEN /\ task' = [task EXCEPT ![t] =
                       [pc |-> "wait", key |-> key,
                        build |-> (CHOOSE b \in InFlight(key) : TRUE).owner]]
                  /\ UNCHANGED <<builds, render_calls, recency>>
             ELSE /\ task' = [task EXCEPT ![t] =
                       [pc |-> "wait", key |-> key, build |-> t]]
                  /\ builds' = builds \cup
                       {[key |-> key, owner |-> t, layer_obj |-> found.v]}
                  /\ render_calls' = [render_calls EXCEPT ![key].started = @ + 1]
                  /\ UNCHANGED recency
    /\ UNCHANGED <<layers, call, tile_cache, requested, listing, layers_json, scan,
                   sidecar, max_cache>>

\* the blocking worker of a build returns: the tile is inserted and handed to
\* every task waiting for this build, or the error is
RenderFinish(b) ==
    /\ b \in builds
    /\ \E fault \in ServeFaults, warped \in ServeBuffers :
          LET png == Renders[b.layer_obj][fault][warped]
              outcome == IF png.ok THEN Ok(TileResponse(png.v)) ELSE Err(png.e)
              kept == IF png.ok
                      THEN insert(tile_cache, recency, b.key, png.v, max_cache)
                      ELSE [cache |-> tile_cache, order |-> recency]
          IN /\ tile_cache' = kept.cache
             /\ recency' = kept.order
             /\ render_calls' =
                    IF png.ok THEN render_calls
                    ELSE [render_calls EXCEPT ![b.key].failed = @ + 1]
             /\ task' = [t \in Tasks |->
                    IF task[t].pc = "wait" /\ task[t].key = b.key
                          /\ task[t].build = b.owner
                    THEN [pc |-> "done", key |-> b.key, result |-> outcome]
                    ELSE task[t]]
    /\ builds' = builds \ {b}
    /\ UNCHANGED <<layers, call, cache_hits, cache_misses, requested, listing,
                   layers_json, scan, sidecar, max_cache>>

Cancel_aborts(t) ==
    /\ task[t].pc = "wait"
    /\ task' = [task EXCEPT ![t] = [pc |-> "dropped", key |-> task[t].key]]
    /\ builds' = {b \in builds : b.owner # t}
    /\ UNCHANGED <<layers, call, tile_cache, cache_hits, cache_misses, requested,
                   render_calls, listing, layers_json, scan, sidecar, max_cache,
                   recency>>

\* the client goes away while its request waits for the build: the task is
\* dropped at its suspension point, the build is not
Cancel(t) ==
    /\ task[t].pc = "wait"
    /\ task' = [task EXCEPT ![t] = [pc |-> "dropped", key |-> task[t].key]]
    /\ UNCHANGED <<layers, call, tile_cache, cache_hits, cache_misses, builds,
                   requested, render_calls, listing, layers_json, scan, sidecar,
                   max_cache, recency>>

\* tile_handler answers the client, or the dropped task is freed: the task ends
Finish(t) ==
    /\ task[t].pc \in {"done", "dropped"}
    /\ task' = [task EXCEPT ![t] = IdleTask]
    /\ UNCHANGED <<layers, call, tile_cache, cache_hits, cache_misses, builds,
                   requested, render_calls, listing, layers_json, scan, sidecar,
                   max_cache, recency>>

InitServe ==
    /\ layers \in ServeCatalogues
    /\ call = IdleCall
    /\ tile_cache = EmptyMap
    /\ cache_hits = 0
    /\ cache_misses = 0
    /\ builds = {}
    /\ task = [t \in Tasks |-> IdleTask]
    /\ requested = [k \in Keys |-> 0]
    /\ render_calls = [k \in Keys |-> [started |-> 0, failed |-> 0]]
    /\ listing = << >>
    /\ layers_json = << >>
    /\ scan = Built
    /\ sidecar = None
    /\ max_cache = cache_size_bytes(default_cache_size_gb)
    /\ recency = << >>

\* requests arrive at any time
NextServe ==
    \/ \E t \in Tasks : Request(t, MaxRequests)
    \/ \E t \in Tasks : Probe(t)
    \/ \E b \in builds : RenderFinish(b)
    \/ \E t \in Tasks : Finish(t)

SpecServe == InitServe /\ [][NextServe]_vars

\* a client that issues its requests one after another
RequestNext ==
    /\ \A u \in Tasks : task[u].pc = "idle"
    /\ Request(1, MaxSeqRequests)

NextSeq ==
    \/ RequestNext
    \/ \E t \in Tasks : Probe(t)
    \/ \E b \in builds : RenderFinish(b)
    \/ \E t \in Tasks : Finish(t)

SpecSeq == InitServe /\ [][NextSeq]_vars

MaxCacheGb == 2
MaxCacheRequests == 4

\* the cached reader with a small budget, every layer name catalogued
CacheCatalogues == {[n \in RequestNames |-> <<Scanned(n, s_terrain, 0, 100)>>]}

InitCache ==
    /\ layers \in CacheCatalogues
    /\ call = IdleCall
    /\ tile_cache = EmptyMap
    /\ cache_hits = 0
    /\ cache_misses = 0
    /\ builds = {}
    /\ task = [t \in Tasks |-> IdleTask]
    /\ requested = [k \in Keys |-> 0]
    /\ render_calls = [k \in Keys |-> [started |-> 0, failed |-> 0]]
    /\ listing = << >>
    /\ layers_json = << >>
    /\ scan = Built
    /\ sidecar = None
    /\ max_cache \in {cache_size_bytes(gb) : gb \in 0..MaxCacheGb}
    /\ recency = << >>

\* requests arrive at any time and clients go away at any time
NextCache ==
    \/ \E t \in Tasks : Request(t, MaxCacheRequests)
    \/ \E t \in Tasks : Probe(t)
    \/ \E b \in builds : RenderFinish(b)
    \/ \E t \in Tasks : Cancel(t)
    \/ \E t \in Tasks : Finish(t)

SpecCache == InitCache /\ [][NextCache]_vars

----------------------------------------------------------------------------
(* The catalogue builder with the metadata cache, list_layers and the        *)
(* GET /layers handler.                                                      *)

\* a raster of the data tree, as WalkDir and the raster library see it
File(style, stem, size_bytes, geometry, min_value, max_value) ==
    [style |-> style, stem |-> stem, path |-> PathOf(style, stem),
     size_bytes |-> size_bytes, last_modified |-> 1700000000,
     geometry |-> geometry, min_value |-> F(min_value),
     max_value |-> F(max_value), is_cog |-> TRUE]

FileBarViridis == File(s_viridis, s_bar, 1024, Geo4326, 0, 100)
FileBarTerrain == File(s_terrain, s_bar, 2048, Geo3857, 0, 100)
FileBarUpper == File(s_viridis, s_Bar, 1024, Geo2056, 0, 200)
FileAlps == File(s_terrain, s_alps, 1024, Geo2056, 5, 5)

DataFiles == {FileBarViridis, FileBarTerrain, FileBarUpper, FileAlps}

\* file extensions: tif, TIF, tiff, geotiff, geotif, txt
e_tif == <<116, 105, 102>>
e_TIF == <<84, 73, 70>>
e_tiff == <<116, 105, 102, 102>>
e_geotiff == <<103, 101, 111, 116, 105, 102, 102>>
e_geotif == <<103, 101, 111, 116, 105, 102>>
e_txt == <<116, 120, 116>>

\* an entry of the walk: the file, its depth below the root, its extension
DirEntry(file, depth, extension) ==
    [file |-> file, depth |-> depth, extension |-> extension]

FileAtRoot == File(s_grey, s_foo, 512, Geo4326, 0, 1)
FileGeotiff == File(s_viridis, s_foo, 512, Geo4326, 0, 1)
FileGeotif == File(s_terrain, s_foo, 512, Geo4326, 0, 1)
FileText == File(s_steps, s_foo, 512, Geo4326, 0, 1)
FileNoExtension == File(s_rev, s_foo, 512, Geo4326, 0, 1)

\* the data tree: the four rasters (one of them a level deeper, under its
\* style folder), a raster directly under the root, rasters named .geotiff and
\* .geotif, a text file and a file without extension
Tree ==
    {DirEntry(FileBarViridis, 2, Some(e_tif)),
     DirEntry(FileBarTerrain, 2, Some(e_TIF)),
     DirEntry(FileBarUpper, 2, Some(e_tiff)),
     DirEntry(FileAlps, 3, Some(e_tif)),
     DirEntry(FileAtRoot, 1, Some(e_tif)),
     DirEntry(FileGeotiff, 2, Some(e_geotiff)),
     DirEntry(FileGeotif, 2, Some(e_geotif)),
     DirEntry(FileText, 2, Some(e_txt)),
     DirEntry(FileNoExtension, 2, None)}

\* WalkDir::new(root).min_depth(d)
min_depth(tree, d) == {e \in tree : e.depth >= d}

\* str::eq_ignore_ascii_case
eq_ignore_ascii_case(a, b) ==
    LET lower(str) == [i \in 1..Len(str) |->
                         IF str[i] \in 65..90 THEN str[i] + 32 ELSE str[i]]
    IN lower(a) = lower(b)

\* the filter of the walk: the extension is tif or tiff
is_raster(e) ==
    IF e.extension.some
    THEN \/ eq_ignore_ascii_case(e.extension.v, e_tif)
         \/ eq_ignore_ascii_case(e.extension.v, e_tiff)
    ELSE FALSE

\* `entries`: the files the builder goes through
Entries == {e.file : e \in {e \in min_depth(Tree, 2) : is_raster(e)}}

\* the orders in which a set can be iterated
Perms(S) ==
    {p \in [1..Cardinality(S) -> S] : \A i, j \in 1..Cardinality(S) : p[i] = p[j] => i = j}

\* metadata::key_for(path, root): the file stem
key_for(file) == file.stem

\* LayerMetadata::from_layer
from_layer(layer_obj) ==
    [layer |-> layer_obj.layer, size_bytes |-> layer_obj.size_bytes,
     last_modified |-> layer_obj.last_modified,
     crs_code |-> layer_obj.source_geometry.crs_code,
     min_value |-> layer_obj.min_value, max_value |-> layer_obj.max_value,
     is_cog |-> layer_obj.is_cog,
     extent_minx |-> layer_obj.source_geometry.extent.minx,
     extent_miny |-> layer_obj.source_geometry.extent.miny,
     extent_maxx |-> layer_obj.source_geometry.extent.maxx,
     extent_maxy |-> layer_obj.source_geometry.extent.maxy]

\* LayerMetadata::to_layer(path): the style comes from the parent folder,
\* the cached geometry starts empty
to_layer(meta, path) ==
    [layer |-> meta.layer, style |-> path[1], path |-> path,
     size_bytes |-> meta.size_bytes,
     source_geometry |->
        LayerGeometry(meta.crs_code,
                      GeometryExtent(meta.extent_minx, meta.extent_miny,
                                     meta.extent_maxx, meta.extent_maxy)),
     cached_geometry |-> EmptyMap,
     colour_stops |-> StyleStops(path[1]),
     min_value |-> meta.min_value, max_value |-> meta.max_value,
     is_cog |-> meta.is_cog, last_modified |-> meta.last_modified]

\* the Layer the builder makes of a raster it opened
FreshLayer(file) ==
    [layer |-> file.stem, style |-> file.style, path |-> file.path,
     size_bytes |-> file.size_bytes,
     source_geometry |-> file.geometry,
     cached_geometry |-> EmptyMap,
     colour_stops |-> StyleStops(file.style),
     min_value |-> file.min_value, max_value |-> file.max_value,
     is_cog |-> file.is_cog, last_modified |-> file.last_modified]

\* the metadata cache the builder may find on disk: none, a current record,
\* a stale record, a current record of a raster in another CRS, the record an
\* earlier run wrote for terrain/bar when that raster had 1024 bytes
MetaOf(file) == from_layer(FreshLayer(file))
MetaCaches ==
    {EmptyMap,
     [k \in {s_bar} |-> MetaOf(FileBarViridis)],
     [k \in {s_bar} |-> [MetaOf(FileBarViridis) EXCEPT !.size_bytes = 999]],
     [k \in {s_Bar} |-> MetaOf(FileBarUpper)],
     [k \in {s_bar} |-> MetaOf(File(s_terrain, s_bar, 1024, Geo3857, 0, 100))]}

\* the header record of the side-car: the fields of LayerMetadata
Columns ==
    <<"layer", "size_bytes", "last_modified", "crs_code", "min_value",
      "max_value", "is_cog", "extent_minx", "extent_miny", "extent_maxx",
      "extent_maxy">>

\* Writer::serialize(meta): one CSV record, the fields in declaration order
serialize(meta) ==
    <<meta.layer, meta.size_bytes, meta.last_modified, meta.crs_code,
      meta.min_value, meta.max_value, meta.is_cog, meta.extent_minx,
      meta.extent_miny, meta.extent_maxx, meta.extent_maxy>>

\* one item of rdr.deserialize::<LayerMetadata>(): the record must have the
\* fields of the header, each of its type (u64 for size and time)
deserialize(headers, row) ==
    IF /\ headers = Columns
       /\ Len(row) = Len(headers)
       /\ row[2] >= 0
       /\ row[3] >= 0
    THEN Some([layer |-> row[1], size_bytes |-> row[2], last_modified |-> row[3],
               crs_code |-> row[4], min_value |-> row[5], max_value |-> row[6],
               is_cog |-> row[7], extent_minx |-> row[8], extent_miny |-> row[9],
               extent_maxx |-> row[10], extent_maxy |-> row[11]])
    ELSE None

RECURSIVE insert_rows(_, _, _)
\* `for meta in rdr.deserialize().flatten() { cache.insert(meta.layer, meta) }`:
\* a record that fails is passed over, the next one is read
insert_rows(headers, rows, cache) ==
    IF rows = << >> THEN cache
    ELSE LET meta == deserialize(headers, Head(rows))
         IN insert_rows(headers, Tail(rows),
                IF meta.some
                THEN [k \in DOMAIN cache \cup {meta.v.layer} |->
                        IF k = meta.v.layer THEN meta.v ELSE cache[k]]
                ELSE cache)

\* load_cache(cache_path): empty when the file cannot be opened
load_cache(file) ==
    IF ~file.some THEN EmptyMap
    ELSE IF file.v = << >> THEN EmptyMap
    ELSE insert_rows(Head(file.v), Tail(file.v), EmptyMap)

\* the file save_cache writes for a cache, its values iterated in an order
Table(cache, order) ==
    IF order = << >> THEN << >>
    ELSE <<Columns>> \o [i \in 1..Len(order) |-> serialize(cache[order[i]])]

\* a record with a size that is not a u64, and a record cut short
BadSizeRow == serialize([MetaOf(FileAlps) EXCEPT !.size_bytes = -1])
ShortRow == SubSeq(serialize(MetaOf(FileAlps)), 1, 4)

\* the side-car the builder may find: none, empty, the table of a cache, a
\* table with a record that does not deserialize among good ones, a table
\* whose header is cut short
SideCars ==
    {None, Some(<< >>)}
    \cup {Some(Table(c, <<CHOOSE k \in DOMAIN c : TRUE>>)) :
             c \in MetaCaches \ {EmptyMap}}
    \cup {Some(<<Columns, serialize(MetaOf(FileBarViridis)), BadSizeRow>>),
          Some(<<Columns, ShortRow, serialize(MetaOf(FileBarUpper))>>),
          Some(<<SubSeq(Columns, 1, 3), serialize(MetaOf(FileBarViridis))>>)}

\* what PROJ does for the two targets during one file's scan
ProjOutcomes ==
    {WorldProj,
     [WorldProj EXCEPT ![3857] = ProjErr],
     [WorldProj EXCEPT ![4326] = ProjPanic]}

\* layers.entry(name).or_default().push(layer)
Push(catalogue, layer_obj) ==
    [n \in DOMAIN catalogue \cup {layer_obj.layer} |->
        IF n = layer_obj.layer
        THEN (IF n \in DOMAIN catalogue THEN catalogue[n] ELSE << >>) \o <<layer_obj>>
        ELSE catalogue[n]]

\* a hit of the metadata cache: size and mtime both match
MetaHit(meta, file) ==
    /\ key_for(file) \in DOMAIN meta
    /\ meta[key_for(file)].size_bytes = file.size_bytes
    /\ meta[key_for(file)].last_modified = file.last_modified

\* what the raster library does for a file that is read: nothing wrong, the
\* raster cannot be opened, it has no spatial reference, its band cannot be
\* had, its min/max cannot be computed
ScanFaults == {"none", "open", "crs", "band", "minmax"}

\* the per-file part of the loop for a raster that is read: Dataset::open
\* failing is reported and the file passed over (`continue`), the three
\* unwrap_or_else(panic!) end the builder, else the Layer is made
read_raster(file, fault) ==
    CASE fault = "open" -> [k |-> "continue"]
      [] fault \in {"crs", "band", "minmax"} -> [k |-> "panic"]
      [] OTHER -> [k |-> "ok", layer |-> FreshLayer(file)]

\* the builder starts: the side-car is loaded, the tree is walked
LoadCache ==
    /\ scan.pc = "loading"
    /\ scan' = [scan EXCEPT !.pc = "scanning", !.meta = load_cache(sidecar)]
    /\ UNCHANGED <<layers, call, tile_cache, cache_hits, cache_misses, builds,
                   task, requested, render_calls, listing, layers_json, sidecar,
                   max_cache, recency>>

\* the builder handles the next file of the walk: the record is reused or the
\* raster is opened, the geometries are precomputed, the layer is catalogued;
\* a raster that cannot be opened is skipped, a panic ends the builder
ScanFile ==
    /\ scan.pc = "scanning"
    /\ scan.pending # << >>
    /\ \E fault \in ScanFaults, proj \in ProjOutcomes :
          LET file == Head(scan.pending)
              hit == MetaHit(scan.meta, file)
              read == read_raster(file, fault)
              base == IF hit THEN to_layer(scan.meta[key_for(file)], file.path)
                      ELSE FreshLayer(file)
              gen == generate_cached_geometry_sync(base.source_geometry, proj)
              layer_obj == [base EXCEPT !.cached_geometry = gen.cache]
              next == [scan EXCEPT !.pending = Tail(scan.pending)]
              skipped(why) ==
                  [next EXCEPT !.warned = @ \cup {<<file.path, why>>}]
              panicked(why) ==
                  [scan EXCEPT !.pc = "panicked",
                               !.warned = @ \cup {<<file.path, why>>}]
          IN IF ~hit /\ read.k = "continue"
             THEN scan' = skipped(fault) /\ layers' = layers
             ELSE IF ~hit /\ read.k = "panic"
             THEN scan' = panicked(fault) /\ layers' = layers
             ELSE IF gen.k = "panic"
             THEN scan' = panicked("projection") /\ layers' = layers
             ELSE IF gen.k = "err"
             THEN scan' = skipped("projection") /\ layers' = layers
             ELSE /\ layers' = Push(layers, layer_obj)
                  /\ scan' = [next EXCEPT
                        !.meta = [k \in DOMAIN scan.meta \cup {key_for(file)} |->
                                    IF k = key_for(file) THEN from_layer(layer_obj)
                                    ELSE scan.meta[k]],
                        !.reused = IF hit THEN @ \cup {file.path} ELSE @]
    /\ UNCHANGED <<call, tile_cache, cache_hits, cache_misses, builds, task,
                   requested, render_calls, listing, layers_json, sidecar,
                   max_cache, recency>>

\* the walk is over: save_cache is called with the cache, whose values will be
\* written in the order the map iterates
FinishScan ==
    /\ scan.pc = "scanning"
    /\ scan.pending = << >>
    /\ \E order \in Perms(DOMAIN scan.meta) :
          scan' = [scan EXCEPT !.pc = "saving", !.out = Table(scan.meta, order)]
    /\ UNCHANGED <<layers, call, tile_cache, cache_hits, cache_misses, builds,
                   task, requested, render_calls, listing, layers_json, sidecar,
                   max_cache, recency>>

\* WriterBuilder::from_path(cache_path): the file is created or truncated, or
\* cannot be, and then save_cache does nothing
SaveCreate ==
    /\ scan.pc = "saving"
    /\ \E created \in BOOLEAN :
          IF created
          THEN /\ sidecar' = Some(<< >>)
               /\ scan' = [scan EXCEPT !.pc = "writing"]
          ELSE /\ sidecar' = sidecar
               /\ scan' = [scan EXCEPT !.pc = "ready", !.out = << >>]
    /\ UNCHANGED <<layers, call, tile_cache, cache_hits, cache_misses, builds,
                   task, requested, render_calls, listing, layers_json,
                   max_cache, recency>>

\* the next record reaches the file
SaveRecord ==
    /\ scan.pc = "writing"
    /\ scan.out # << >>
    /\ sidecar' = Some(Append(sidecar.v, Head(scan.out)))
    /\ scan' = [scan EXCEPT !.out = Tail(scan.out)]
    /\ UNCHANGED <<layers, call, tile_cache, cache_hits, cache_misses, builds,
                   task, requested, render_calls, listing, layers_json,
                   max_cache, recency>>

\* a write fails (`let _ =`: the error is dropped and the reader is built), or
\* the process is stopped
SaveStops ==
    /\ scan.pc = "writing"
    /\ scan.out # << >>
    /\ \E pc \in {"ready", "killed"} :
          scan' = [scan EXCEPT !.pc = pc, !.out = << >>]
    /\ UNCHANGED <<layers, call, tile_cache, cache_hits, cache_misses, builds,
                   task, requested, render_calls, listing, layers_json, sidecar,
                   max_cache, recency>>

\* everything is written and flushed: save_cache returns, the reader is built
SaveDone ==
    /\ scan.pc = "writing"
    /\ scan.out = << >>
    /\ scan' = [scan EXCEPT !.pc = "ready"]
    /\ UNCHANGED <<layers, call, tile_cache, cache_hits, cache_misses, builds,
                   task, requested, render_calls, listing, layers_json, sidecar,
                   max_cache, recency>>

RECURSIVE Flatten(_, _)
Flatten(catalogue, order) ==
    IF order = << >> THEN << >>
    ELSE catalogue[Head(order)] \o Flatten(catalogue, Tail(order))

\* list_layers(): the records, layer by layer in the order the map iterates
list_layers(catalogue, order) == Flatten(catalogue, order)

\* str::to_lowercase on the letters A..Z
to_lowercase(str) ==
    [i \in 1..Len(str) |-> IF str[i] >= 65 /\ str[i] <= 90 THEN str[i] + 32 ELSE str[i]]

\* Ord::cmp on strings: -1 Less, 0 Equal, 1 Greater
RECURSIVE cmp(_, _)
cmp(a, b) ==
    IF a = << >> /\ b = << >> THEN 0
    ELSE IF a = << >> THEN -1
    ELSE IF b = << >> THEN 1
    ELSE IF Head(a) < Head(b) THEN -1
    ELSE IF Head(a) > Head(b) THEN 1
    ELSE cmp(Tail(a), Tail(b))

by_raw_layer_then_style(a, b) ==
    IF cmp(a.layer, b.layer) # 0 THEN cmp(a.layer, b.layer) ELSE cmp(a.style, b.style)

\* the comparator of get_all_layers
by_layer_then_style(a, b) ==
    IF cmp(to_lowercase(a.layer), to_lowercase(b.layer)) # 0
    THEN cmp(to_lowercase(a.layer), to_lowercase(b.layer))
    ELSE cmp(to_lowercase(a.style), to_lowercase(b.style))

\* one step of a stable sort: e goes behind every element not greater than it
RECURSIVE Insert(_, _)
Insert(sorted, e) ==
    IF sorted = << >> THEN <<e>>
    ELSE IF by_layer_then_style(Head(sorted), e) <= 0
    THEN <<Head(sorted)>> \o Insert(Tail(sorted), e)
    ELSE <<e>> \o sorted

\* slice::sort_by with the comparator of get_all_layers (stable)
RECURSIVE sort_by(_)
sort_by(seq) ==
    IF seq = << >> THEN << >>
    ELSE Insert(sort_by(SubSeq(seq, 1, Len(seq) - 1)), seq[Len(seq)])

LayerResponse(layer_obj) ==
    [layer |-> layer_obj.layer, style |-> layer_obj.style,
     geometry |-> layer_obj.cached_geometry]

\* get_all_layers: list, convert, sort
get_all_layers(listed) ==
    sort_by([i \in 1..Len(listed) |-> LayerResponse(listed[i])])

\* a caller (the start-up banner) lists the layers
ListLayers ==
    /\ scan.pc = "ready"
    /\ \E order \in Perms(DOMAIN layers) :
          listing' = list_layers(layers, order)
    /\ UNCHANGED <<layers, call, tile_cache, cache_hits, cache_misses, builds,
                   task, requested, render_calls, layers_json, scan, sidecar,
                   max_cache, recency>>

\* GET /layers
GetAllLayers ==
    /\ scan.pc = "ready"
    /\ \E order \in Perms(DOMAIN layers) :
          /\ listing' = list_layers(layers, order)
          /\ layers_json' = get_all_layers(list_layers(layers, order))
    /\ UNCHANGED <<layers, call, tile_cache, cache_hits, cache_misses, builds,
                   task, requested, render_calls, scan, sidecar, max_cache,
                   recency>>

InitLayers ==
    /\ layers = EmptyMap
    /\ call = IdleCall
    /\ tile_cache = EmptyMap
    /\ cache_hits = 0
    /\ cache_misses = 0
    /\ builds = {}
    /\ task = EmptyMap
    /\ requested = EmptyMap
    /\ render_calls = EmptyMap
    /\ listing = << >>
    /\ layers_json = << >>
    /\ \E walk \in Perms(Entries) :
          scan = [pc |-> "loading", entries |-> walk, pending |-> walk,
                  meta |-> EmptyMap, reused |-> {}, warned |-> {}, out |-> << >>]
    /\ sidecar \in SideCars
    /\ max_cache = cache_size_bytes(default_cache_size_gb)
    /\ recency = << >>

NextLayers ==
    \/ LoadCache
    \/ ScanFile
    \/ FinishScan
    \/ SaveCreate
    \/ SaveRecord
    \/ SaveStops
    \/ SaveDone
    \/ ListLayers
    \/ GetAllLayers

SpecLayers == InitLayers /\ [][NextLayers]_vars

----------------------------------------------------------------------------
(* Properties of the catalogue and its listing                               *)

\* the catalogued records
Catalogued ==
    UNION {{<<n, i>> : i \in 1..Len(layers[n])} : n \in DOMAIN layers}

LowerKey(r) == <<to_lowercase(r.layer), to_lowercase(r.style)>>

\* ascending by lower-cased layer name, then by lower-cased style name
Ascending(seq) ==
    \A i \in 1..Len(seq) - 1 :
        \/ cmp(LowerKey(seq[i])[1], LowerKey(seq[i + 1])[1]) < 0
        \/ /\ cmp(LowerKey(seq[i])[1], LowerKey(seq[i + 1])[1]) = 0
           /\ cmp(LowerKey(seq[i])[2], LowerKey(seq[i + 1])[2]) <= 0

\* every catalogued record of a (layer, style) is in seq as often as in the
\* catalogue, and seq holds nothing else
EveryRecordOnce(seq) ==
    /\ Len(seq) = Cardinality(Catalogued)
    /\ \A ni \in Catalogued :
          LET r == layers[ni[1]][ni[2]]
          IN Cardinality({i \in 1..Len(seq) :
                             seq[i].layer = r.layer /\ seq[i].style = r.style})
             = Cardinality({mj \in Catalogued :
                             /\ layers[mj[1]][mj[2]].layer = r.layer
                             /\ layers[mj[1]][mj[2]].style = r.style})

----------------------------------------------------------------------------
(* Properties of the cached reader                                           *)

Building(k) == {b \in builds : b.key = k}

OnlyKey(k) == requested[k] >= 1 /\ \A j \in Keys \ {k} : requested[j] = 0

C2_Count ==
    \A k \in Keys :
        (/\ OnlyKey(k)
         /\ \A t \in Tasks : task[t].pc = "idle"
         /\ SelectLayer(layers, k[1], None).some
         /\ render_calls[k].failed = 0)
           => /\ cache_misses = 1
              /\ cache_hits = requested[k] - 1

C2_Step ==
    /\ \A t \in Tasks :
          (task[t].pc = "probe" /\ task'[t].pc # "probe")
             => IF task[t].key \in DOMAIN tile_cache
                THEN /\ cache_hits' = cache_hits + 1
                     /\ cache_misses' = cache_misses
                ELSE /\ cache_misses' = cache_misses + 1
                     /\ cache_hits' = cache_hits
                     /\ SelectLayer(layers, task[t].key[1], None).some
                           => /\ task'[t].pc = "wait"
                              /\ \E b \in builds' : b.key = task[t].key
    /\ (\A t \in Tasks : ~(task[t].pc = "probe" /\ task'[t].pc # "probe"))
          => /\ cache_hits' = cache_hits
             /\ cache_misses' = cache_misses

----------------------------------------------------------------------------
(* Properties of the tile cache (SpecCache, SpecServe) *)

\* the renders of the key that returned a tile so far
Succeeded(k) ==
    render_calls[k].started - render_calls[k].failed - Cardinality(InFlight(k))

\* the place of a key in the recency order
Pos(order, k) == CHOOSE i \in 1..Len(order) : order[i] = k

\* the weights of the entries fit the budget cache_size_gb * GiB, and the
\* recency order lists the entries, each once
C21_Budget ==
    /\ weighted_size(tile_cache) <= max_cache
    /\ \E gb \in 0..MaxCacheGb : max_cache = cache_size_bytes(gb)
    /\ Len(recency) = Cardinality(DOMAIN tile_cache)
    /\ {recency[i] : i \in 1..Len(recency)} = DOMAIN tile_cache

\* an entry leaves only to make room for one that is stored, and it was used
\* less recently than every entry that stays; a hit and a store make their
\* key the most recently used
C21_Lru ==
    LET gone == DOMAIN tile_cache \ DOMAIN tile_cache'
        new == {k \in DOMAIN tile_cache' :
                   k \notin DOMAIN tile_cache \/ tile_cache'[k] # tile_cache[k]
                   \/ recency'[Len(recency')] = k}
    IN /\ gone # {} =>
             /\ \E k \in DOMAIN tile_cache' \ DOMAIN tile_cache :
                    weighted_size(tile_cache) + weigher(k, tile_cache'[k]) > max_cache
             /\ \A k \in gone, j \in DOMAIN tile_cache \cap DOMAIN tile_cache' :
                    Pos(recency, k) < Pos(recency, j)
       /\ \A t \in Tasks :
             (task[t].pc = "probe" /\ task'[t].pc = "done" /\ task'[t].result.ok)
                => recency'[Len(recency')] = task[t].key
       /\ \A k \in DOMAIN tile_cache' \ DOMAIN tile_cache :
             recency'[Len(recency')] = k

CancelStep ==
    \A t \in Tasks :
        (task[t].pc = "wait" /\ task'[t].pc = "dropped")
           => /\ builds' = builds
              /\ tile_cache' = tile_cache

\* a build ends only by returning; its tile is handed to the tasks that still
\* wait for it and stored, waited for or not, when the budget admits it
BuildStep ==
    \A b \in builds \ builds' :
        LET failed == render_calls'[b.key].failed = render_calls[b.key].failed + 1
            waiting == {t \in Tasks : /\ task[t].pc = "wait"
                                      /\ task[t].key = b.key
                                      /\ task[t].build = b.owner}
        IN /\ failed \/ render_calls' = render_calls
           /\ ~failed =>
                 /\ \A t \in waiting :
                       /\ task'[t].pc = "done"
                       /\ task'[t].result.ok
                       /\ task'[t].result.v.bytes \in
                             {Renders[b.layer_obj]["none"][w].v : w \in ServeBuffers}
                 /\ \A t \in waiting, u \in waiting :
                       task'[t].result = task'[u].result
                 /\ (\E gb \in 1..MaxCacheGb : max_cache = cache_size_bytes(gb))
                       => /\ b.key \in DOMAIN tile_cache'
                          /\ \A t \in waiting :
                                task'[t].result.v.bytes = tile_cache'[b.key]

\* a request for a key the cache holds is a hit
HitStep ==
    \A t \in Tasks :
        (task[t].pc = "probe" /\ task'[t].pc # "probe"
            /\ task[t].key \in DOMAIN tile_cache)
           => /\ cache_hits' = cache_hits + 1
              /\ task'[t].pc = "done"
              /\ task'[t].result = Ok(TileResponse(tile_cache[task[t].key]))
              /\ render_calls' = render_calls

IsPng(bytes) ==
    /\ Len(bytes) = Len(PngSignature) + 2 + TileSize * TileSize
    /\ SubSeq(bytes, 1, Len(PngSignature)) = PngSignature

\* every entry of the cache is the tile of a render of its key that succeeded
C28_Entries ==
    \A k \in DOMAIN tile_cache :
        /\ SelectLayer(layers, k[1], None).some
        /\ Succeeded(k) >= 1
        /\ IsPng(tile_cache[k])
        /\ tile_cache[k] \in
              {PngEncode(AsRaw(PaintImage(w, SelectLayer(layers, k[1], None).v, None))) :
                 w \in ServeBuffers}

\* a request that fails leaves the cache as it was, and a request for a key
\* that is not in the cache runs the lookup, and the render unless one is in
\* flight, whatever failed before
C28_Step ==
    \A t \in Tasks :
        /\ (task'[t].pc = "done" /\ task[t].pc # "done" /\ ~task'[t].result.ok)
              => tile_cache' = tile_cache
        /\ (task[t].pc = "probe" /\ task'[t].pc # "probe"
                /\ task[t].key \notin DOMAIN tile_cache)
              => /\ cache_misses' = cache_misses + 1
                 /\ IF ~SelectLayer(layers, task[t].key[1], None).some
                    THEN /\ task'[t].pc = "done"
                         /\ task'[t].result = Err(LayerNotFound(task[t].key[1]))
                    ELSE /\ task'[t].pc = "wait"
                         /\ InFlight(task[t].key) = {} =>
                               render_calls'[task[t].key].started =
                                  render_calls[task[t].key].started + 1

----------------------------------------------------------------------------
(* Properties of the uncached reader and the renderer (SpecRender) *)

\* the pixel of a PNG at column x, row y
PngPixel(bytes, x, y) == bytes[Len(PngSignature) + 2 + y * TileSize + x + 1]

\* a cell the claim calls no-data: NaN, or equal to the declared no-data value
DeclaredNoData(v, nodata_opt) ==
    v.k = "nan" \/ (nodata_opt.some /\ nodata_opt.v.k = "fin" /\ v = nodata_opt.v)

Rendered == call.pc # "idle" /\ call.result.ok

\* C3: get_tile for a name that is no key of the catalogue returns the error
\* "Layer not found: '<name>'", the tile route answers 404 with exactly that
\* text, and Dataset::open is not called.
C3_UnknownLayerIs404 ==
    (call.pc # "idle" /\ call.layer \notin DOMAIN layers) =>
        LET text == <<76,97,121,101,114,32,110,111,116,32,102,111,117,110,100,58,32>>
                        \o <<39>> \o call.layer \o <<39>>
        IN /\ ~call.result.ok
           /\ call.result.e = text
           /\ call.opened = 0
           /\ call.pc = "answered" =>
                (call.response.status = 404 /\ call.response.body = text)

C3_Witness ==
    /\ call.pc = "answered"
    /\ call.layer = s_foo
    /\ call.response.status = 404
    /\ call.opened = 0

\* C4: every raster-library failure while a tile is produced makes get_tile
\* return an error, answered with 404; none yields a success with PNG bytes.
C4_LibraryFailureIsError ==
    (call.pc # "idle" /\ call.layer \in DOMAIN layers /\ call.fault # "none") =>
        /\ ~call.result.ok
        /\ call.pc = "answered" => call.response.status = 404

\* C5: a present style selector picks the record of that style among the
\* records of the layer name; an absent one picks the first record.
C5_StyleSelectsRecord ==
    (call.pc = "returned" /\ call.used.some) =>
        LET records == layers[call.layer]
        IN /\ (/\ call.style.some
               /\ Len(records) > 1
               /\ \E i \in 1..Len(records) : records[i].style = call.style.v)
                  => call.used.v.style = call.style.v
           /\ ~call.style.some => call.used.v = records[1]

\* C8: in every style branch a destination cell that is NaN or equals the
\* band's no-data value gives the pixel (0,0,0,0) at x = i mod TileSize,
\* y = i div TileSize.
C8_NoDataIsTransparent ==
    Rendered =>
        \A i \in Cells :
            DeclaredNoData(call.warped[i + 1], call.nodata_opt) =>
                PngPixel(call.result.v.bytes, i % TileSize, i \div TileSize)
                    = <<0, 0, 0, 0>>

\* a declared (non-NaN) no-data value hides a cell that would be opaque, in the
\* colour-stop branch, away from the diagonal of the tile
C8_Witness ==
    /\ Rendered
    /\ call.used.v.style = s_terrain
    /\ call.nodata_opt = Some(F(0))
    /\ call.warped[2] = F(0)
    /\ call.warped[3] = F(50)
    /\ PngPixel(call.result.v.bytes, 1 % TileSize, 1 \div TileSize) = <<0, 0, 0, 0>>
    /\ PngPixel(call.result.v.bytes, 2 % TileSize, 2 \div TileSize)[4] = 255

InRange(v, lo, hi) == v.k = "fin" /\ FLe(lo, v) /\ FLe(v, hi)

\* every data cell lies within [min_value, max_value] and the stop domain
DataInRange ==
    LET l == call.used.v
        cs == l.colour_stops
    IN \A i \in Cells :
          LET v == call.warped[i + 1]
          IN ~DeclaredNoData(v, call.nodata_opt) =>
                /\ InRange(v, l.min_value, l.max_value)
                /\ (cs # << >> /\ ~is_builtin_palette(l.style)) =>
                      InRange(v, cs[1].value, cs[Len(cs)].value)

\* C9: with all data in range (and stops of non-zero alpha) the only
\* transparent pixels are those of no-data cells.
C9_OnlyNoDataIsTransparent ==
    (Rendered /\ DataInRange
        /\ \A k \in 1..Len(call.used.v.colour_stops) :
              call.used.v.colour_stops[k].alpha # 0) =>
        \A i \in Cells :
            ~DeclaredNoData(call.warped[i + 1], call.nodata_opt) =>
                PngPixel(call.result.v.bytes, i % TileSize, i \div TileSize)[4] # 0

\* C10: with the stops (0, R0) and (100, R1) a cell of value 50 gets the
\* midpoint of R0 and R1, within one unit per channel, whatever min_value and
\* max_value are.
C10_MidpointOfTwoStops ==
    Rendered =>
        LET cs == call.used.v.colour_stops
        IN (Len(cs) = 2 /\ cs[1].value = F(0) /\ cs[2].value = F(100)) =>
            \A i \in Cells :
                (call.warped[i + 1] = F(50)
                    /\ ~DeclaredNoData(call.warped[i + 1], call.nodata_opt)) =>
                    LET px == PngPixel(call.result.v.bytes, i % TileSize, i \div TileSize)
                        R0 == <<cs[1].red, cs[1].green, cs[1].blue, cs[1].alpha>>
                        R1 == <<cs[2].red, cs[2].green, cs[2].blue, cs[2].alpha>>
                    IN \A c \in 1..4 : Abs(2 * px[c] - (R0[c] + R1[c])) <= 2

\* the layer is rendered through its colour stops
StopsBranch(layer_obj) ==
    ~has_builtin_gradient(layer_obj.style) /\ layer_obj.colour_stops # << >>

\* the colour between the stops a and b at the value v, channel by channel
Between(a, b, v) ==
    LET t == FDiv(FSub(v, a.value), FSub(b.value, a.value))
    IN <<Lerp8(t, a.red, b.red), Lerp8(t, a.green, b.green),
         Lerp8(t, a.blue, b.blue), Lerp8(t, a.alpha, b.alpha)>>

\* C26: in the colour-stop branch a data cell whose value is outside
\* [first stop, last stop] gives the pixel (0,0,0,0), and one inside gives the
\* linear interpolation, at its value, between the two stops around it.
C26_OutsideStopsIsTransparent ==
    (Rendered /\ StopsBranch(call.used.v)) =>
        LET cs == call.used.v.colour_stops
        IN \A i \in Cells :
              LET v == call.warped[i + 1]
                  px == PngPixel(call.result.v.bytes, i % TileSize, i \div TileSize)
              IN ~DeclaredNoData(v, call.nodata_opt) =>
                    IF InRange(v, cs[1].value, cs[Len(cs)].value)
                    THEN \E k \in 1..(Len(cs) - 1) :
                            /\ InRange(v, cs[k].value, cs[k + 1].value)
                            /\ px = Between(cs[k], cs[k + 1], v)
                    ELSE px = <<0, 0, 0, 0>>

\* the centre of the pixel (px, py) of the tile (z, x, y), in EPSG:3857
PixelCentre(z, x, y, px, py) ==
    LET b == tile_bounds(z, x, y)
        w == FDiv(FSub(b[3], b[1]), F(TileSize))
        h == FDiv(FSub(b[4], b[2]), F(TileSize))
    IN <<FAdd(b[1], FMul(Q(2 * px + 1, 2), w)),
         FSub(b[4], FMul(Q(2 * py + 1, 2), h))>>

\* the point lies in the extent
Covers(extent, p) ==
    /\ FLe(extent.minx, p[1]) /\ FLe(p[1], extent.maxx)
    /\ FLe(extent.miny, p[2]) /\ FLe(p[2], extent.maxy)

\* C27: in a rendered tile every pixel whose centre lies outside the layer's
\* extent in EPSG:3857 is (0,0,0,0), whatever the warp left in its cell.
C27_OutsideExtentIsTransparent ==
    Rendered =>
        \A i \in Cells :
            ~Covers(call.used.v.cached_geometry[3857].extent,
                    PixelCentre(call.z, call.x, call.y, i % TileSize, i \div TileSize))
            => PngPixel(call.result.v.bytes, i % TileSize, i \div TileSize)
                  = <<0, 0, 0, 0>>

\* C30: when min_value <= max_value the normalised value of every data cell
\* is a number of [0, 1], and the cell gets a colour of its branch: in the
\* colour-stop branch one of a stop segment.
C30_NormalisedInUnitInterval ==
    (Rendered /\ FLe(call.used.v.min_value, call.used.v.max_value)) =>
        \A i \in Cells :
            LET v == call.warped[i + 1]
                l == call.used.v
                norm == FClamp(Normalise(v, l), F(0), F(1))
            IN ~DeclaredNoData(v, call.nodata_opt) =>
                  /\ InRange(norm, F(0), F(1))
                  /\ (/\ StopsBranch(l)
                      /\ \A k \in 1..(Len(l.colour_stops) - 1) :
                            FLe(l.colour_stops[k].value, l.colour_stops[k + 1].value))
                     => SegmentOf(l.colour_stops,
                                  FAdd(l.colour_stops[1].value,
                                       FMul(norm,
                                            FSub(l.colour_stops[Len(l.colour_stops)].value,
                                                 l.colour_stops[1].value)))) # 0

----------------------------------------------------------------------------
(* The pure functions, applied to enumerated arguments.  call holds the      *)
(* arguments and what the function returned.                                 *)

\* tile_bounds is called for a tile of the pyramid
TileBounds ==
    /\ call.pc = "idle"
    /\ \E z \in 0..MaxTileZoom :
          \E x \in 0..Pow2(z) - 1, y \in 0..Pow2(z) - 1 :
             call' = [pc |-> "tile_bounds", z |-> z, x |-> x, y |-> y,
                      bbox |-> tile_bounds(z, x, y)]
    /\ UNCHANGED <<layers, tile_cache, cache_hits, cache_misses, builds, task,
                   requested, render_calls, listing, layers_json, scan, sidecar,
                   max_cache, recency>>

\* the arguments of the conversions: the tabulated latitudes and ordinates,
\* the poles and beyond
Longitudes == {F(-180), F(0), F(10), F(180)}
Latitudes == {F(-100), F(-90), FNeg(MAX_LAT), F(-45), F(0), F(45), MAX_LAT, F(90), F(100)}
Abscissae == {F(-1), F(0), Q(1, 18), F(1)}
Ordinates == {F(-2), F(-1), Q(-2806, 10000), F(0), Q(2806, 10000), F(1), F(2)}

\* both lon_lat_to_mercator of the crate are called
ToMercator ==
    /\ call.pc = "idle"
    /\ \E lon \in Longitudes, lat \in Latitudes :
          call' = [pc |-> "lon_lat_to_mercator", lon |-> lon, lat |-> lat,
                   out |-> lon_lat_to_mercator(lon, lat),
                   utils_out |-> utils_lon_lat_to_mercator(lon, lat)]
    /\ UNCHANGED <<layers, tile_cache, cache_hits, cache_misses, builds, task,
                   requested, render_calls, listing, layers_json, scan, sidecar,
                   max_cache, recency>>

ToLonLat ==
    /\ call.pc = "idle"
    /\ \E x \in Abscissae, y \in Ordinates :
          call' = [pc |-> "mercator_to_lon_lat", x |-> x, y |-> y,
                   out |-> mercator_to_lon_lat(x, y)]
    /\ UNCHANGED <<layers, tile_cache, cache_hits, cache_misses, builds, task,
                   requested, render_calls, listing, layers_json, scan, sidecar,
                   max_cache, recency>>

\* both LayerGeometry::project of the crate are called on a 4326 extent
ProjectTo3857 ==
    /\ call.pc = "idle"
    /\ \E lo \in Longitudes, hi \in Longitudes, s \in Latitudes, n \in Latitudes :
          /\ FLe(lo, hi) /\ FLe(s, n)
          /\ LET g == LayerGeometry(4326, GeometryExtent(lo, s, hi, n))
             IN call' = [pc |-> "project", g |-> g,
                         out |-> project(g, 3857, WorldProj[3857]),
                         reader_out |-> reader_project(g, 3857, WorldProj[3857])]
    /\ UNCHANGED <<layers, tile_cache, cache_hits, cache_misses, builds, task,
                   requested, render_calls, listing, layers_json, scan, sidecar,
                   max_cache, recency>>

\* a raster around the south pole in Antarctic polar stereographic
Geo3031 ==
    LayerGeometry(3031, GeometryExtent(F(-3000000), F(-3000000), F(1000000), F(1000000)))

ProjGeometries == {Geo4326, Geo3857, Geo2056, Geo0, Geo3031}
ProjTargets == {4326, 3857, 2056}

\* What PROJ can do for the extent g and the target t.  "EPSG:0" names no
\* CRS, so the transform cannot be constructed.  The corners of the polar
\* extent, (-3e6, -3e6) and (1e6, 1e6), lie at 135W 52S and 45E 77S.  A
\* conversion can fail for a point outside the target's domain.
ProjFor(g, t) ==
    IF g.crs_code = 0 THEN {ProjPanic}
    ELSE IF g.crs_code = 3031 /\ t = 4326
    THEN {ProjOk(GeometryExtent(F(-135), F(-52), F(45), F(-77)))}
    ELSE IF g.crs_code = 3031 /\ t = 3857
    THEN {ProjOk(GeometryExtent(Q(-3, 4), Q(-3343, 10000), Q(1, 4), Q(-72, 100)))}
    ELSE IF t = 2056
    THEN {ProjOk(GeometryExtent(F(2485000), F(1075000), F(2834000), F(1296000))),
          ProjErr}
    ELSE {WorldProj[t], ProjErr}

\* LayerGeometry::project is called for an extent and a target
Project ==
    /\ call.pc = "idle"
    /\ \E g \in ProjGeometries, t \in ProjTargets :
          \E p \in ProjFor(g, t) :
             call' = [pc |-> "project_to", g |-> g, target |-> t, proj |-> p,
                      out |-> project(g, t, p)]
    /\ UNCHANGED <<layers, tile_cache, cache_hits, cache_misses, builds, task,
                   requested, render_calls, listing, layers_json, scan, sidecar,
                   max_cache, recency>>

\* generate_cached_geometry_sync is called for an extent
GenerateCachedGeometry ==
    /\ call.pc = "idle"
    /\ \E g \in ProjGeometries :
          \E p \in [{4326, 3857} -> UNION {ProjFor(g, t) : t \in {4326, 3857}}] :
             /\ \A t \in {4326, 3857} : p[t] \in ProjFor(g, t)
             /\ call' = [pc |-> "generate_cached_geometry_sync", g |-> g, proj |-> p,
                         out |-> generate_cached_geometry_sync(g, p)]
    /\ UNCHANGED <<layers, tile_cache, cache_hits, cache_misses, builds, task,
                   requested, render_calls, listing, layers_json, scan, sidecar,
                   max_cache, recency>>

----------------------------------------------------------------------------
(* style.txt: parse_style_file.  A string is the sequence of its character  *)
(* codes, a file the sequence of the lines `content.lines()` yields, or None *)
(* when it cannot be read                                                    *)

MaxLines == 3

\* str.starts_with(prefix)
starts_with(str, prefix) ==
    /\ Len(str) >= Len(prefix)
    /\ SubSeq(str, 1, Len(prefix)) = prefix

\* 9..13 and 32: the white space str::trim removes among the characters used
is_whitespace(c) == c \in 9..13 \/ c = 32

\* str.trim().is_empty()
trim_is_empty(str) == \A i \in 1..Len(str) : is_whitespace(str[i])

RECURSIVE split(_, _)
\* str.split(sep) collected: the fields between the separators, empty fields
\* included, no trimming
split(str, sep) ==
    IF \A i \in 1..Len(str) : str[i] # sep THEN <<str>>
    ELSE LET i == CHOOSE j \in 1..Len(str) :
                      /\ str[j] = sep
                      /\ \A k \in 1..(j - 1) : str[k] # sep
         IN <<SubSeq(str, 1, i - 1)>> \o split(SubSeq(str, i + 1, Len(str)), sep)

is_digit(c) == c \in 48..57

RECURSIVE digits_value(_)
\* the number a run of decimal digits writes
digits_value(str) ==
    IF str = << >> THEN 0
    ELSE 10 * digits_value(SubSeq(str, 1, Len(str) - 1)) + (str[Len(str)] - 48)

Pow10(n) == IF n = 0 THEN 1 ELSE IF n = 1 THEN 10 ELSE IF n = 2 THEN 100 ELSE 1000

\* u8::from_str: an optional '+', then one digit or more, at most 255; no
\* white space, no '-'
parse_u8(str) ==
    LET body == IF str # << >> /\ str[1] = 43 THEN Tail(str) ELSE str
    IN IF /\ body # << >>
          /\ \A i \in 1..Len(body) : is_digit(body[i])
          /\ digits_value(body) <= 255
       THEN Some(digits_value(body))
       ELSE None

\* f32::from_str on the strings of the style files here: an optional sign, then
\* "NaN", "inf", or digits with an optional '.' and fraction digits (at most
\* three, every value exact or compared as written); no white space
parse_f32(str) ==
    LET neg == str # << >> /\ str[1] = 45
        body == IF str # << >> /\ str[1] \in {43, 45} THEN Tail(str) ELSE str
        parts == split(body, 46)
        whole == parts[1]
        frac == IF Len(parts) = 2 THEN parts[2] ELSE << >>
        mag == Q(digits_value(whole) * Pow10(Len(frac)) + digits_value(frac),
                 Pow10(Len(frac)))
    IN CASE body = <<78, 97, 78>> -> Some(NaN)
         [] body = <<105, 110, 102>> -> Some(IF neg THEN NInf ELSE PInf)
         [] /\ Len(parts) <= 2
            /\ Len(frac) <= 3
            /\ Len(whole) + Len(frac) >= 1
            /\ \A i \in 1..Len(whole) : is_digit(whole[i])
            /\ \A i \in 1..Len(frac) : is_digit(frac[i])
              -> Some(IF neg THEN FNeg(mag) ELSE mag)
         [] OTHER -> None

INTERPOLATION == <<73, 78, 84, 69, 82, 80, 79, 76, 65, 84, 73, 79, 78>>

\* the lines the loop skips before it splits: comments, INTERPOLATION and
\* blank lines
skipped_line(line) ==
    \/ starts_with(line, <<35>>)
    \/ starts_with(line, INTERPOLATION)
    \/ trim_is_empty(line)

short_line_under_six(parts) == Len(parts) < 6

\* `if parts.len() < 5 { continue; }`
short_line(parts) == Len(parts) < 5

\* one turn of the loop on a line that is not skipped: the stop of its first
\* five fields, the error of the first field that does not parse, or nothing
\* for a line of fewer than five fields
parse_line(line) ==
    LET parts == split(line, 44)
    IN IF short_line(parts) THEN Ok(<< >>)
       ELSE LET value == parse_f32(parts[1])
                red == parse_u8(parts[2])
                green == parse_u8(parts[3])
                blue == parse_u8(parts[4])
                alpha == parse_u8(parts[5])
            IN CASE ~value.some -> Err("Invalid value")
                 [] ~red.some -> Err("Invalid red value")
                 [] ~green.some -> Err("Invalid green value")
                 [] ~blue.some -> Err("Invalid blue value")
                 [] ~alpha.some -> Err("Invalid alpha value")
                 [] OTHER -> Ok(<<[value |-> value.v, red |-> red.v,
                                   green |-> green.v, blue |-> blue.v,
                                   alpha |-> alpha.v]>>)

push_front(stops, stop) == stop \o stops

\* stops.push(ColourStop { .. })
push(stops, stop) == stops \o stop

RECURSIVE parse_lines(_, _)
\* the loop over content.lines(); `?` returns the first error
parse_lines(lines, stops) ==
    IF lines = << >> THEN Ok(stops)
    ELSE IF skipped_line(Head(lines)) THEN parse_lines(Tail(lines), stops)
    ELSE LET r == parse_line(Head(lines))
         IN IF r.ok THEN parse_lines(Tail(lines), push(stops, r.v))
            ELSE r

\* parse_style_file(path): the file is read whole, then parsed line by line
parse_style_file(file) ==
    IF ~file.some THEN Err("Failed to read style.txt")
    ELSE parse_lines(file.v, << >>)

\* the lines of the style files
l_black == <<48, 44, 48, 44, 48, 44, 48, 44, 50, 53, 53>>          \* 0,0,0,0,255
l_green == <<49, 48, 48, 44, 50, 48, 48, 44, 49, 48, 48, 44, 53, 48,
             44, 50, 53, 53>>                              \* 100,200,100,50,255
l_extra == <<53, 48, 44, 49, 49, 48, 44, 50, 48, 44, 51, 48, 44, 49,
             50, 56, 44, 120>>                            \* 50,110,20,30,128,x
l_signed == <<45, 49, 46, 53, 44, 43, 49, 44, 50, 44, 51, 44, 52>>  \* -1.5,+1,2,3,4
l_nan == <<78, 97, 78, 44, 49, 44, 50, 44, 51, 44, 52>>             \* NaN,1,2,3,4
l_four == <<55, 44, 49, 44, 50, 44, 51>>                            \* 7,1,2,3
l_two == <<120, 44, 121>>                                           \* x,y
l_comment == <<35, 32, 49, 44, 50, 44, 51, 44, 52, 44, 53>>         \* # 1,2,3,4,5
l_interp == INTERPOLATION \o <<58, 44, 44, 44, 44>>          \* INTERPOLATION:,,,,
l_empty == << >>
l_blank == <<32, 9>>                                                \* space, tab
l_badvalue == <<120, 44, 49, 44, 50, 44, 51, 44, 52>>               \* x,1,2,3,4
l_256 == <<49, 48, 44, 50, 53, 54, 44, 48, 44, 48, 44, 50, 53, 53>> \* 10,256,0,0,255
l_space == <<49, 48, 44, 48, 44, 32, 48, 44, 48, 44, 50, 53, 53>>   \* 10,0, 0,0,255
l_neg == <<49, 48, 44, 48, 44, 48, 44, 45, 49, 44, 50, 53, 53>>     \* 10,0,0,-1,255
l_noalpha == <<49, 48, 44, 48, 44, 48, 44, 48, 44>>                 \* 10,0,0,0,
l_sphash == <<32, 35, 44, 49, 44, 50, 44, 51, 44, 52>>              \*  #,1,2,3,4

StyleLines ==
    {l_black, l_green, l_extra, l_signed, l_nan, l_four, l_two, l_comment,
     l_interp, l_empty, l_blank, l_badvalue, l_256, l_space, l_neg, l_noalpha,
     l_sphash}

RECURSIVE SeqsUpTo(_, _)
\* the sequences of at most n elements of S
SeqsUpTo(S, n) ==
    IF n = 0 THEN {<< >>}
    ELSE LET shorter == SeqsUpTo(S, n - 1)
         IN shorter \cup {Append(s, e) : s \in shorter, e \in S}

\* the style files: unreadable, or at most MaxLines lines
StyleFiles == {None} \cup {Some(ls) : ls \in SeqsUpTo(StyleLines, MaxLines)}

ParseStyleFile ==
    /\ call.pc = "idle"
    /\ \E file \in StyleFiles :
          call' = [pc |-> "parse_style_file", file |-> file,
                   out |-> parse_style_file(file)]
    /\ UNCHANGED <<layers, tile_cache, cache_hits, cache_misses, builds, task,
                   requested, render_calls, listing, layers_json, scan, sidecar,
                   max_cache, recency>>

InitFn ==
    /\ layers = EmptyMap
    /\ call = IdleCall
    /\ tile_cache = EmptyMap
    /\ cache_hits = 0
    /\ cache_misses = 0
    /\ builds = {}
    /\ task = EmptyMap
    /\ requested = EmptyMap
    /\ render_calls = EmptyMap
    /\ listing = << >>
    /\ layers_json = << >>
    /\ scan = Built
    /\ sidecar = None
    /\ max_cache = cache_size_bytes(default_cache_size_gb)
    /\ recency = << >>

NextFn ==
    \/ TileBounds \/ ToMercator \/ ToLonLat \/ ProjectTo3857 \/ ParseStyleFile
    \/ Project \/ GenerateCachedGeometry \/ Return

SpecFn == InitFn /\ [][NextFn]_vars

----------------------------------------------------------------------------
(* Properties of the pure functions (SpecFn); lengths are in units of the    *)
(* half-world 20037508.342789244 m                                           *)

\* C11: tile (0,0,0) is the whole square [-1, 1]^2, tile (1,0,0) is
\* (-1, 0, 0, 1); at every zoom the tiles of a row and of a column meet
\* (maxx of (z,x,y) is minx of (z,x+1,y), miny of (z,x,y) is maxy of
\* (z,x,y+1), y growing south), the first and last of them touch the edge of
\* the square, and every tile is a square of side 2 / 2^z.
C11_TilesPartitionWorld ==
    call.pc = "tile_bounds" =>
        LET z == call.z
            x == call.x
            y == call.y
            b == call.bbox
            last == Pow2(z) - 1
        IN /\ (z = 0) => b = <<F(-1), F(-1), F(1), F(1)>>
           /\ (z = 1 /\ x = 0 /\ y = 0) => b = <<F(-1), F(0), F(0), F(1)>>
           /\ FSub(b[3], b[1]) = Q(2, Pow2(z))
           /\ FSub(b[4], b[2]) = Q(2, Pow2(z))
           /\ IF x = 0 THEN b[1] = F(-1)
              ELSE b[1] = Q(2 * x - Pow2(z), Pow2(z))
           /\ IF x = last THEN b[3] = F(1) ELSE b[3] = tile_bounds(z, x + 1, y)[1]
           /\ IF y = 0 THEN b[4] = F(1)
              ELSE b[4] = Q(Pow2(z) - 2 * y, Pow2(z))
           /\ IF y = last THEN b[2] = F(-1) ELSE b[2] = tile_bounds(z, x, y + 1)[4]

\* a tile inside the pyramid, south-west of the centre
C11_Witness ==
    /\ call.pc = "tile_bounds"
    /\ call.z = 2 /\ call.x = 1 /\ call.y = 2
    /\ call.bbox = <<Q(-1, 2), Q(-1, 2), F(0), F(0)>>

\* the ordinate lon_lat_to_mercator must return for a latitude
ClampedY(lat) ==
    IF FGe(lat, MAX_LAT) THEN F(1)
    ELSE IF FLe(lat, FNeg(MAX_LAT)) THEN F(-1)
    ELSE MercY(lat)

\* C12: lon_lat_to_mercator(lon, lat) with lat above MAX_LAT returns exactly
\* the result for MAX_LAT, and below -MAX_LAT the result for -MAX_LAT; so does
\* the conversion LayerGeometry::project uses on the 4326 to 3857 path, in
\* geometry::projection and in the one reader::LayerGeometry uses; and
\* mercator_to_lon_lat does not clamp the ordinate.
C12_LatitudeIsClamped ==
    /\ call.pc = "lon_lat_to_mercator" =>
          /\ call.out = <<FDiv(call.lon, F(180)), ClampedY(call.lat)>>
          /\ call.utils_out = <<FDiv(call.lon, F(180)), ClampedY(call.lat)>>
    /\ call.pc = "project" =>
          /\ call.out.g.extent.miny = ClampedY(call.g.extent.miny)
          /\ call.out.g.extent.maxy = ClampedY(call.g.extent.maxy)
          /\ call.reader_out.g.extent.miny = ClampedY(call.g.extent.miny)
          /\ call.reader_out.g.extent.maxy = ClampedY(call.g.extent.maxy)
    /\ (call.pc = "mercator_to_lon_lat" /\ FGe(call.y, F(2)))
          => call.out[2] # mercator_to_lon_lat(call.x, F(1))[2]

----------------------------------------------------------------------------
(* Properties of the catalogue builder and the metadata side-car             *)
(* (SpecLayers)                                                              *)

\* the files the scan has to consider: depth 2 or more, extension tif, tiff,
\* geotiff or geotif in any case
ToConsider ==
    {e.file : e \in
        {e \in Tree :
            /\ e.depth >= 2
            /\ e.extension.some
            /\ \E x \in {e_tif, e_tiff, e_geotiff, e_geotif} :
                   eq_ignore_ascii_case(e.extension.v, x)}}

\* the files whose layers are in the catalogue
CataloguedPaths == {layers[c[1]][c[2]].path : c \in Catalogued}

\* C16: the builder considers exactly the files at depth 2 or more whose
\* extension is tif, tiff, geotiff or geotif, compared without case; a
\* catalogued layer is named after the stem of its file and styled after the
\* file's parent directory.
C16_ScanSelection ==
    /\ {scan.entries[i] : i \in 1..Len(scan.entries)} = ToConsider
    /\ \A c \in Catalogued :
          \E file \in ToConsider :
             /\ layers[c[1]][c[2]].path = file.path
             /\ layers[c[1]][c[2]].layer = file.stem
             /\ layers[c[1]][c[2]].style = file.style

C17_PerFileErrorsAreSkipped ==
    /\ scan.pc = "panicked" =>
          \A w \in scan.warned :
             w[1] = Head(scan.pending).path =>
                w[2] \notin {"open", "crs", "band", "minmax"}
    /\ scan.pc \in {"saving", "writing", "ready", "killed"} =>
          \A i \in 1..Len(scan.entries) :
             \/ \E w \in scan.warned : w[1] = scan.entries[i].path
             \/ scan.entries[i].path \in CataloguedPaths

\* the files of the walk the builder has dealt with
Handled ==
    {scan.entries[i] : i \in 1..(Len(scan.entries) - Len(scan.pending))}

C19_MalformedIsEmpty ==
    (scan.pc = "scanning" /\ scan.pending = scan.entries) =>
        /\ ~sidecar.some => scan.meta = EmptyMap
        /\ (/\ sidecar.some
            /\ \E i \in 2..Len(sidecar.v) :
                   ~deserialize(sidecar.v[1], sidecar.v[i]).some)
           => scan.meta = EmptyMap

\* C20: every step leaves the side-car as it was or puts the complete table of
\* the new cache in its place; and the builder goes on to build the reader
\* whatever happens to the write.
C20_AtomicWriteBack ==
    [][/\ \/ sidecar' = sidecar
          \/ \E order \in Perms(DOMAIN scan.meta) :
                sidecar' = Some(Table(scan.meta, order))
       /\ scan.pc \in {"saving", "writing"} =>
             scan'.pc \in {"saving", "writing", "ready", "killed"}]_vars

----------------------------------------------------------------------------
(* Properties of parse_style_file (SpecFn) *)

\* the number of ',' of a line: one less than its comma-separated fields
Commas(line) == Cardinality({i \in 1..Len(line) : line[i] = 44})

\* a line that is not blank, does not start with '#' or 'INTERPOLATION' and has
\* at least five comma-separated fields
Accepted(line) ==
    /\ \E i \in 1..Len(line) : line[i] \notin {9, 32}
    /\ line[1] # 35
    /\ ~(Len(line) >= 13 /\ SubSeq(line, 1, 13) = INTERPOLATION)
    /\ Commas(line) >= 4

\* the stop the first five fields of a numeric line write, none for a line
\* with a field among them that is not a number of its type
StopOf(line) ==
    CASE line = l_black -> Some(ColourStop(0, 0, 0, 0, 255))
      [] line = l_green -> Some(ColourStop(100, 200, 100, 50, 255))
      [] line = l_extra -> Some(ColourStop(50, 110, 20, 30, 128))
      [] line = l_signed -> Some([value |-> Q(-3, 2), red |-> 1, green |-> 2,
                                  blue |-> 3, alpha |-> 4])
      [] line = l_nan -> Some([value |-> NaN, red |-> 1, green |-> 2,
                               blue |-> 3, alpha |-> 4])
      [] OTHER -> None

\* C14: on a readable file whose accepted lines are all numeric,
\* parse_style_file returns one ColourStop per accepted line (not blank, not
\* starting with '#' or 'INTERPOLATION', at least five fields), in the order of
\* the lines, duplicates kept, each built from the first five fields.
C14_OneStopPerAcceptedLine ==
    (/\ call.pc = "parse_style_file"
     /\ call.file.some
     /\ \A i \in 1..Len(call.file.v) :
            Accepted(call.file.v[i]) => StopOf(call.file.v[i]).some)
    => LET accepted == SelectSeq(call.file.v, Accepted)
       IN call.out = Ok([i \in 1..Len(accepted) |-> StopOf(accepted[i]).v])

\* two equal lines around a smaller value: three stops, unsorted
C14_Witness ==
    /\ call.pc = "parse_style_file"
    /\ call.file = Some(<<l_green, l_black, l_green>>)
    /\ call.out.ok
    /\ Len(call.out.v) = 3
    /\ call.out.v[1].value = F(100)
    /\ call.out.v[2].value = F(0)
    /\ call.out.v[3] = call.out.v[1]

\* C15: on a readable file parse_style_file returns an error, and no stops,
\* when some accepted line has a field among its first five that does not
\* parse as its type; and it returns an error only then: a line of fewer than
\* five fields never makes it fail.
C15_FailsAsAWhole ==
    (call.pc = "parse_style_file" /\ call.file.some)
    => LET bad == \E i \in 1..Len(call.file.v) :
                     /\ Accepted(call.file.v[i])
                     /\ ~StopOf(call.file.v[i]).some
       IN /\ bad => (~call.out.ok /\ "v" \notin DOMAIN call.out)
          /\ ~call.out.ok => bad

\* a stop, a short line that is not numeric, then a channel above 255
C15_Witness ==
    /\ call.pc = "parse_style_file"
    /\ call.file = Some(<<l_black, l_two, l_256>>)
    /\ call.out = Err("Invalid red value")

----------------------------------------------------------------------------
(* Properties of LayerGeometry::project (SpecFn)                             *)

\* minx <= maxx and miny <= maxy
Ordered(extent) ==
    /\ FLe(extent.minx, extent.maxx)
    /\ FLe(extent.miny, extent.maxy)

\* C24: every geometry LayerGeometry::project returns for an ordered extent,
\* by a fast path or by the PROJ fallback, and every entry of the map
\* generate_cached_geometry_sync returns, has minx <= maxx and miny <= maxy.
C24_ExtentsAreOrdered ==
    /\ (call.pc = "project_to" /\ Ordered(call.g.extent) /\ call.out.k = "ok")
          => Ordered(call.out.g.extent)
    /\ (/\ call.pc = "generate_cached_geometry_sync"
        /\ Ordered(call.g.extent)
        /\ call.out.k = "ok")
          => \A c \in DOMAIN call.out.cache : Ordered(call.out.cache[c].extent)

\* the pair is served without PROJ
FastPath(src, dst) ==
    \/ src = 4326 /\ dst = 3857
    \/ src = 3857 /\ dst = 4326

\* C25: project(target) returns an unchanged copy when target is the source
\* CRS; for another pair outside the fast paths whose PROJ transform cannot
\* be constructed (source CRS 0) it returns an error value, it does not
\* abort; generate_cached_geometry_sync returns that error as well.
C25_ProjectFailsWithErrorValue ==
    /\ (call.pc = "project_to" /\ call.g.crs_code = call.target)
          => call.out = [k |-> "ok", g |-> call.g]
    /\ (/\ call.pc = "project_to"
        /\ call.g.crs_code # call.target
        /\ ~FastPath(call.g.crs_code, call.target)
        /\ call.proj = ProjPanic)
          => call.out.k = "err"
    /\ (/\ call.pc = "generate_cached_geometry_sync"
        /\ \E t \in {4326, 3857} :
              /\ call.g.crs_code # t
              /\ ~FastPath(call.g.crs_code, t)
              /\ call.proj[t].k # "ok")
          => call.out.k = "err"

----------------------------------------------------------------------------
(* Where the raster library is called.  call.on is the thread that runs the  *)
(* body of the function, call.log the library calls made so far with the     *)
(* thread that made each                                                     *)

\* the raster-library calls of process_cog, in the order of the code
CogCalls ==
    <<"open", "driver", "create", "srs", "wkt", "set_projection",
      "set_geo_transform", "warp", "rasterband", "no_data_value", "read">>

\* the raster-library calls of LocalTileReader::get_tile
GetTileCalls ==
    <<"open", "srs", "driver", "create", "wkt", "set_projection",
      "set_geo_transform", "warp", "rasterband", "no_data_value", "read">>

\* the call that fails, if any (no_data_value returns an Option)
CallFaults ==
    ({"none"} \cup {CogCalls[i] : i \in 1..Len(CogCalls)}) \ {"no_data_value"}

\* an async caller awaits process_cog: up to the spawn nothing has run
CallProcessCog ==
    /\ call.pc = "idle"
    /\ \E fault \in CallFaults :
          call' = [pc |-> "spawn", fn |-> "process_cog", on |-> "async",
                   fault |-> fault, todo |-> CogCalls, log |-> << >>]
    /\ UNCHANGED <<layers, tile_cache, cache_hits, cache_misses, builds, task,
                   requested, render_calls, listing, layers_json, scan, sidecar,
                   max_cache, recency>>

\* task::spawn_blocking(move || { ... }): the closure runs on a thread of the
\* blocking pool, the async task awaits the JoinHandle
SpawnBlocking ==
    /\ call.pc = "spawn"
    /\ call' = [call EXCEPT !.pc = "body", !.on = "blocking"]
    /\ UNCHANGED <<layers, tile_cache, cache_hits, cache_misses, builds, task,
                   requested, render_calls, listing, layers_json, scan, sidecar,
                   max_cache, recency>>

\* an async caller awaits get_tile: its body runs on the async task
CallGetTile ==
    /\ call.pc = "idle"
    /\ \E fault \in CallFaults :
          call' = [pc |-> "body", fn |-> "get_tile", on |-> "async",
                   fault |-> fault, todo |-> GetTileCalls, log |-> << >>]
    /\ UNCHANGED <<layers, tile_cache, cache_hits, cache_misses, builds, task,
                   requested, render_calls, listing, layers_json, scan, sidecar,
                   max_cache, recency>>

\* the next library call of the body, on the thread that runs the body; an
\* error that is propagated ends the body
LibraryCall ==
    /\ call.pc = "body"
    /\ call.todo # << >>
    /\ LET op == Head(call.todo)
           made == Append(call.log, [op |-> op, on |-> call.on])
       IN IF call.fault = op /\ Propagated(op)
          THEN call' = [call EXCEPT !.log = made, !.todo = << >>, !.pc = "failed"]
          ELSE call' = [call EXCEPT !.log = made, !.todo = Tail(call.todo)]
    /\ UNCHANGED <<layers, tile_cache, cache_hits, cache_misses, builds, task,
                   requested, render_calls, listing, layers_json, scan, sidecar,
                   max_cache, recency>>

\* the body ends: the pixels are coloured and encoded, no library call is left
EndOfBody ==
    /\ call.pc \in {"body", "failed"}
    /\ call.todo = << >>
    /\ call' = [call EXCEPT !.pc = IF call.fn = "process_cog" THEN "join" ELSE "done"]
    /\ UNCHANGED <<layers, tile_cache, cache_hits, cache_misses, builds, task,
                   requested, render_calls, listing, layers_json, scan, sidecar,
                   max_cache, recency>>

\* .await of the JoinHandle: the async task of process_cog goes on
Join ==
    /\ call.pc = "join"
    /\ call' = [call EXCEPT !.pc = "done", !.on = "async"]
    /\ UNCHANGED <<layers, tile_cache, cache_hits, cache_misses, builds, task,
                   requested, render_calls, listing, layers_json, scan, sidecar,
                   max_cache, recency>>

\* the caller has the result
Resume ==
    /\ call.pc = "done"
    /\ call' = IdleCall
    /\ UNCHANGED <<layers, tile_cache, cache_hits, cache_misses, builds, task,
                   requested, render_calls, listing, layers_json, scan, sidecar,
                   max_cache, recency>>

NextCalls ==
    \/ CallProcessCog \/ SpawnBlocking \/ CallGetTile \/ LibraryCall
    \/ EndOfBody \/ Join \/ Resume

SpecCalls == InitFn /\ [][NextCalls]_vars

\* C22: every raster-library call made while a request is handled (open,
\* create, warp, read and the others) is made on a thread of the blocking
\* pool, never on the async task.
C22_LibraryCallsOnBlockingWorker ==
    call.pc # "idle" =>
        \A i \in 1..Len(call.log) : call.log[i].on = "blocking"

====
